---- MODULE Spec2Model ----
(***************************************************************************)
(* A model of the footprint Manager of op-geth (package footprint): the    *)
(* per-transaction footprint cache, the known-mismatch ledger kept in      *)
(* memory and in known_footprint_mismatches.txt, and the validation of     *)
(* footprint strings.                                                       *)
(*                                                                          *)
(* Strings are sequences of character codes (ASCII), so that prefixes,     *)
(* lengths and character ranges are computed as the Go code computes them. *)
(* A common.Hash is scaled down to HashLength bytes.                       *)
(***************************************************************************)
EXTENDS Integers, Sequences, FiniteSets, TLC

VARIABLES
    constructed,      \* globalManager # nil: GetManager has run its once-body
    cache,            \* m.cache: txHash -> Entry (a function on the cached hashes)
    knownMismatches,  \* m.knownMismatches: the set of hashes mapped to true
    mismatchFile,     \* the file m.mismatchFile: [exists, lines]
    last,             \* the most recent call: its name, arguments and results
    stored,           \* history: arguments of the latest accepted Store per cached hash
    recorded,         \* history: argument of the most recent RecordMismatch call
    followed,         \* history: the run started from an absent or empty ledger
                      \* file and has so far made at most MaxCalls RecordMismatch
                      \* calls, on distinct hashes, with no file operation failing
    calls,            \* history: the arguments of those calls, in order
    allNil,           \* history: the ledger was loaded with no file operation
                      \* failing and every RecordMismatch call returned nil
    mu,               \* m.mu: the goroutine that holds the write lock, or 0
    goroutine,        \* per goroutine calling RecordMismatch: where it is in the
                      \* call (pc), its argument (txHash) and its local entries
    capacity,         \* solanaMetadataCache: c.capacity
    ll,               \* c.ll: the entries of the list, front first
    cacheMap,         \* c.cache: blockHash -> the entry of its list element
    accessed,         \* history: the cached block hashes, the one whose last Add
                      \* or successful Get is the most recent first
    added,            \* history: the Add calls since construction, while they are
                      \* on distinct hashes, at most capacity + 1, and no Get
                      \* came between two of them (inOrder)
    db,               \* the key-value store: key -> value (a sequence of bytes)
    written,          \* history: per key, the most recent write
    header,           \* the header given to NewEVMBlockContext
    chain,            \* the ChainContext: its headers and its solana metadata
    blockCtx,         \* the block context built by NewEVMBlockContext
    asked,            \* history: the calls of the two closures of the context
                      \* followed so far, each with its argument and result
    configuredMax,    \* m.maxMismatchEntries, as GetManager set it (0 before)
    env,              \* the environment of the process: variable -> string
    once,             \* per singleton, its sync.Once: done, and the goroutine
                      \* that holds its mutex, or 0
    global,           \* per singleton, the global pointer: <<>> (nil) or
                      \* <<[id, dataDir, loaded]>>
    getter,           \* per goroutine calling GetManager or
                      \* GetFootPrintMismatchTracker: where it is in the call
                      \* (pc), the singleton and dataDir, what it returned
    built,            \* history: per singleton, how many were constructed
                      \* and how many loads were run
    tracker,          \* globalMismatchTracker.knownMismatches
    globalFootprintCache,
                      \* ethapi.globalFootprintCache: 0 (nil) or the place of
                      \* the instance in footprintCaches
    footprintCaches,  \* the FootprintCache instances constructed so far
    callbacks,        \* core.GlobalFootprintStore and core.GlobalFootprintEvict:
                      \* registered or not (nil)
    caller,           \* per goroutine calling InitFootprintCache,
                      \* GetGlobalFootprintCache or GetFootprintAPIs: where it
                      \* is in the call (pc) and the function called (op)
    returned,         \* history: the instances GetGlobalFootprintCache returned
    served,           \* the caches of the FootprintAPI services built
    cmu,              \* c.mu of the solanaMetadataCache: the goroutine that holds
                      \* the write lock, or 0 (writer), and the goroutines that
                      \* hold a read lock (readers)
    cacheCaller,      \* per goroutine calling Add or Get of the cache: where it
                      \* is in the call (pc), its arguments, what Get read (res)
    latest,           \* history: blockHash -> the slot and hash of the most
                      \* recent Add that stored them
    statedb,          \* st.state, the StateDB: the balance and the nonce of the
                      \* sender and of the coinbase
    gasPool           \* st.gp: the gas left in the GasPool of the block

vars == <<constructed, cache, knownMismatches, mismatchFile, last, stored,
          recorded, followed, calls, allNil, mu, goroutine,
          capacity, ll, cacheMap, accessed, added, db, written,
          header, chain, blockCtx, asked,
          configuredMax, env, once, global, getter, built, tracker,
          globalFootprintCache, footprintCaches, callbacks, caller, returned, served,
          cmu, cacheCaller, latest,
          statedb, gasPool>>

\* The variables by component; last is shared
ManagerVars == <<configuredMax, constructed, cache, knownMismatches, mismatchFile, stored,
                 recorded, followed, calls, allNil>>
ConcurrentVars == <<mu, goroutine>>
LruVars == <<capacity, ll, cacheMap, accessed, added>>
DbVars == <<db, written>>
ResolverVars == <<header, chain, blockCtx, asked>>
EnvVars == <<env>>
GateVars == <<once, global, getter, built, tracker>>
EthapiVars == <<globalFootprintCache, footprintCaches, callbacks, caller, returned, served>>

LruLockVars == <<cmu, cacheCaller, latest>>

TransitionVars == <<statedb, gasPool>>

\* The state outside the Manager's own fields and their history
Outside == <<ConcurrentVars, LruVars, DbVars, ResolverVars, EnvVars, GateVars, EthapiVars, LruLockVars, TransitionVars>>

-----------------------------------------------------------------------------
(* Characters and strings *)

Rep(c, n) == [i \in 1..n |-> c]

\* strings.HasPrefix
HasPrefix(s, p) == Len(s) >= Len(p) /\ SubSeq(s, 1, Len(p)) = p

\* "0x" and "0X"
Prefix0x == <<48, 120>>
Prefix0X == <<48, 88>>

\* Mutant of isValidFootprint: the length test only rejects longer strings.
isValidFootprintNoMinLength(footprint) ==
    IF footprint = <<>> THEN TRUE
    ELSE LET hexPart == IF HasPrefix(footprint, Prefix0x) \/ HasPrefix(footprint, Prefix0X)
                        THEN SubSeq(footprint, 3, Len(footprint))
                        ELSE footprint
         IN  IF Len(hexPart) > 64 THEN FALSE
             ELSE \A i \in 1..Len(hexPart) :
                     LET r == hexPart[i]
                     IN  (r >= 48 /\ r <= 57) \/ (r >= 97 /\ r <= 102) \/ (r >= 65 /\ r <= 70)

\* isValidFootprint: '0'..'9' = 48..57, 'a'..'f' = 97..102, 'A'..'F' = 65..70
isValidFootprint(footprint) ==
    IF footprint = <<>> THEN TRUE
    ELSE LET hexPart == IF HasPrefix(footprint, Prefix0x) \/ HasPrefix(footprint, Prefix0X)
                        THEN SubSeq(footprint, 3, Len(footprint))
                        ELSE footprint
         IN  IF Len(hexPart) # 64 THEN FALSE
             ELSE \A i \in 1..Len(hexPart) :
                     LET r == hexPart[i]
                     IN  (r >= 48 /\ r <= 57) \/ (r >= 97 /\ r <= 102) \/ (r >= 65 /\ r <= 70)

\* The strings given to isValidFootprint: an optional prefix, then a
\* run of one character, possibly with one other character put in.
SamplePrefixes == {<<>>, Prefix0x, Prefix0X, <<48, 120, 48, 120>>, <<120>>}
SampleLengths == {0, 1, 2, 62, 63, 64, 65, 66}
\* '/' '0' '9' ':' '@' 'A' 'F' 'G' '`' 'a' 'f' 'g': both sides of every range end
SampleChars == {47, 48, 57, 58, 64, 65, 70, 71, 96, 97, 102, 103}
SampleBodies ==
    {Rep(c, n) : c \in SampleChars, n \in SampleLengths}
    \cup {[Rep(49, n) EXCEPT ![k] = d] : n \in {64, 66}, k \in {1, 2, 33, 64}, d \in {32, 103, 120, 88}}
SampleFootprints == {p \o b : p \in SamplePrefixes, b \in SampleBodies}

-----------------------------------------------------------------------------
(* The footprint cache *)

\* The largest block number: uint64 scaled down to 8 bits
MaxUint64 == 255

\* maxCacheAge: 12, set by GetManager
maxCacheAge == 12

\* The number of transaction hashes used as cache keys
NumTxHashes == 2
TxHashes == 1..NumTxHashes

\* The footprints passed to Store: "", "11..11" (64), "0x22..22" (66),
\* "11..1" (63, too short) and "gg..gg" (64, not hex)
FpEmpty == <<>>
Fp11 == Rep(49, 64)
Fp0x22 == Prefix0x \o Rep(50, 64)
FpShort == Rep(49, 63)
FpNotHex == Rep(103, 64)
Entry(expectedFootprint, actualFootprint, blockNumber, mismatch) ==
    [ExpectedFootprint |-> expectedFootprint, ActualFootprint |-> actualFootprint,
     BlockNumber |-> blockNumber, Mismatch |-> mismatch]

\* The argument lists passed to Store: footprints that differ, that are equal,
\* that are empty, with a flag that says so or not, at blocks 0 and 100; and
\* lists with one or two invalid footprints
StoreArgs ==
    {Entry(Fp11, Fp0x22, 100, TRUE), Entry(Fp0x22, Fp11, 0, FALSE),
     Entry(Fp11, Fp11, 100, FALSE), Entry(Fp0x22, Fp0x22, 0, TRUE),
     Entry(FpEmpty, Fp0x22, 0, FALSE), Entry(FpEmpty, FpEmpty, 100, TRUE),
     Entry(FpShort, Fp11, 100, TRUE), Entry(Fp11, FpNotHex, 0, FALSE),
     Entry(FpNotHex, FpShort, 100, TRUE)}
EvictBlockNumbers == {12, 13, 112, 113, MaxUint64}

\* m.cache[txHash] = e
Put(c, txHash, e) == [h \in DOMAIN c \cup {txHash} |-> IF h = txHash THEN e ELSE c[h]]

\* Mutant of StoreCache: the actual footprint is not validated.
StoreCacheUnchecked(c, txHash, expectedFootprint, actualFootprint, blockNumber, mismatch) ==
    IF ~isValidFootprint(expectedFootprint) THEN c
    ELSE Put(c, txHash, Entry(expectedFootprint, actualFootprint, blockNumber, mismatch))

\* Mutant of StoreCache: an entry already cached is kept.
StoreCacheKeepFirst(c, txHash, expectedFootprint, actualFootprint, blockNumber, mismatch) ==
    IF ~isValidFootprint(expectedFootprint) THEN c
    ELSE IF ~isValidFootprint(actualFootprint) THEN c
    ELSE IF txHash \in DOMAIN c THEN c
    ELSE Put(c, txHash, Entry(expectedFootprint, actualFootprint, blockNumber, mismatch))

\* Mutant of StoreCache: the flag is derived from the footprints.
StoreCacheDerived(c, txHash, expectedFootprint, actualFootprint, blockNumber, mismatch) ==
    IF ~isValidFootprint(expectedFootprint) THEN c
    ELSE IF ~isValidFootprint(actualFootprint) THEN c
    ELSE Put(c, txHash, Entry(expectedFootprint, actualFootprint, blockNumber,
                              expectedFootprint # <<>> /\ actualFootprint # <<>>
                              /\ expectedFootprint # actualFootprint))

\* Manager.Store: the cache after the call
StoreCache(c, txHash, expectedFootprint, actualFootprint, blockNumber, mismatch) ==
    IF ~isValidFootprint(expectedFootprint) THEN c
    ELSE IF ~isValidFootprint(actualFootprint) THEN c
    ELSE Put(c, txHash, Entry(expectedFootprint, actualFootprint, blockNumber, mismatch))

\* Manager.Get: (entry, ok); a nil entry is the empty tuple
GetCache(c, txHash) ==
    IF txHash \in DOMAIN c THEN [entry |-> <<c[txHash]>>, ok |-> TRUE]
    ELSE [entry |-> <<>>, ok |-> FALSE]

\* Mutant of EvictOld: the entry at the age limit is removed too.
EvictOldInclusive(c, currentBlockNumber) ==
    IF currentBlockNumber <= maxCacheAge THEN c
    ELSE LET minBlockNumber == currentBlockNumber - maxCacheAge
         IN  [h \in {t \in DOMAIN c : ~(c[t].BlockNumber <= minBlockNumber)} |-> c[h]]

\* Manager.EvictOldEntries: the cache after the call. The subtraction is
\* guarded by the early return, so it does not wrap.
EvictOld(c, currentBlockNumber) ==
    IF currentBlockNumber <= maxCacheAge THEN c
    ELSE LET minBlockNumber == currentBlockNumber - maxCacheAge
         IN  [h \in {t \in DOMAIN c : ~(c[t].BlockNumber < minBlockNumber)} |-> c[h]]

\* Manager.ClearCache: the cache after the call
EmptyCache == [h \in {} |-> Entry(<<>>, <<>>, 0, FALSE)]

-----------------------------------------------------------------------------
(* Hashes and the lines of the ledger file *)

\* common.HashLength, scaled down from 32 bytes; a hash is its big-endian value
HashLength == 1

\* The number of transaction hashes used with the ledger: 0x1a, 0x2b, 0x3c, ...
NumHashes == 4
Hashes == {16 * i + 9 + i : i \in 1..NumHashes}

IsHexChar(r) == (r >= 48 /\ r <= 57) \/ (r >= 97 /\ r <= 102) \/ (r >= 65 /\ r <= 70)
HexValue(r) == IF r <= 57 THEN r - 48 ELSE IF r >= 97 THEN r - 87 ELSE r - 55
HexDigit(n) == IF n < 10 THEN 48 + n ELSE 87 + n

RECURSIVE HexDigits(_, _)
HexDigits(v, n) == IF n = 0 THEN <<>>
                   ELSE Append(HexDigits(v \div 16, n - 1), HexDigit(v % 16))

\* common.Hash.Hex: "0x" and 2*HashLength lower-case digits
Hex(h) == Prefix0x \o HexDigits(h, 2 * HashLength)

\* encoding/hex DecodeString with the error dropped: the value of the bytes
\* decoded before the first bad pair, kept to the last HashLength bytes
RECURSIVE DecodePairs(_, _)
DecodePairs(s, acc) ==
    IF Len(s) < 2 \/ ~IsHexChar(s[1]) \/ ~IsHexChar(s[2]) THEN acc
    ELSE DecodePairs(SubSeq(s, 3, Len(s)),
                     (acc * 256 + 16 * HexValue(s[1]) + HexValue(s[2])) % (256 ^ HashLength))

\* common.HexToHash: BytesToHash(FromHex(s))
HexToHash(s) ==
    LET s1 == IF HasPrefix(s, Prefix0x) \/ HasPrefix(s, Prefix0X)
              THEN SubSeq(s, 3, Len(s)) ELSE s
        s2 == IF Len(s1) % 2 = 1 THEN <<48>> \o s1 ELSE s1
    IN  DecodePairs(s2, 0)

BlankLine == <<>>
\* "# c"
CommentLine == <<35, 32, 99>>

Range(q) == {q[i] : i \in 1..Len(q)}

RECURSIVE SelectHashLines(_)
\* the scan loop of loadKnownMismatches and RecordMismatch over the given lines
SelectHashLines(lines) ==
    IF lines = <<>> THEN <<>>
    ELSE LET line == Head(lines)
         IN  IF line = <<>> \/ line[1] = 35 THEN SelectHashLines(Tail(lines))
             ELSE <<HexToHash(line)>> \o SelectHashLines(Tail(lines))

\* The value of m.maxMismatchEntries; GetManager takes it from
\* GETH_FOOTPRINT_MAX_MISMATCHES (default 10000)
maxMismatchEntries == 2

\* The file: whether it exists, and its lines
NoFile == [exists |-> FALSE, lines |-> <<>>]
FileOf(lines) == [exists |-> TRUE, lines |-> lines]

\* What os.Open and the Scanner deliver. read = -1: the open failed;
\* read < number of lines: the scan failed after that many lines.
ReadLines(f, read) ==
    IF ~f.exists \/ read < 0 THEN <<>>
    ELSE SubSeq(f.lines, 1, IF read < Len(f.lines) THEN read ELSE Len(f.lines))
OpenFailed(f, read) == ~f.exists \/ read < 0
ScanFailed(f, read) == f.exists /\ read >= 0 /\ read < Len(f.lines)

Min(a, b) == IF a < b THEN a ELSE b
Distinct(q) == \A i, j \in 1..Len(q) : i # j => q[i] # q[j]

\* The last n elements of a sequence
LastN(q, n) == IF Len(q) > n THEN SubSeq(q, Len(q) - n + 1, Len(q)) ELSE q
FirstN(q, n) == IF Len(q) > n THEN SubSeq(q, 1, n) ELSE q

\* Manager.writeMismatchFile. write = -1: OpenFile failed; write < Len(entries):
\* WriteString failed after that many lines were written.
writeMismatchFile(f, entries, write) ==
    IF write < 0 THEN [file |-> f, err |-> TRUE]
    ELSE IF write < Len(entries)
         THEN [file |-> FileOf([i \in 1..write |-> Hex(entries[i])]), err |-> TRUE]
         ELSE [file |-> FileOf([i \in 1..Len(entries) |-> Hex(entries[i])]), err |-> FALSE]

\* Manager.loadKnownMismatches, run by GetManager on the new Manager (whose
\* knownMismatches is empty): the set and the file after it
loadKnownMismatches(f, read, write) ==
    IF OpenFailed(f, read) THEN [knownMismatches |-> {}, mismatchFile |-> f]
    ELSE IF ScanFailed(f, read) THEN [knownMismatches |-> {}, mismatchFile |-> f]
    ELSE LET all == SelectHashLines(ReadLines(f, read))
         IN  IF Len(all) > maxMismatchEntries
             THEN LET entries == LastN(all, maxMismatchEntries)
                  IN  [knownMismatches |-> Range(entries),
                       mismatchFile |-> writeMismatchFile(f, entries, write).file]
             ELSE [knownMismatches |-> Range(all), mismatchFile |-> f]

\* Mutant of RecordMismatchResult: the truncation keeps the oldest entries.
RecordMismatchKeepOldest(known, f, txHash, read, write) ==
    IF txHash \in known
    THEN [knownMismatches |-> known, mismatchFile |-> f, err |-> FALSE, truncated |-> FALSE]
    ELSE LET all == Append(SelectHashLines(ReadLines(f, read)), txHash)
             over == Len(all) > maxMismatchEntries
             entries == IF over THEN FirstN(all, maxMismatchEntries) ELSE all
             wr == writeMismatchFile(f, entries, write)
         IN  [knownMismatches |-> IF over THEN Range(entries) ELSE known \cup {txHash},
              mismatchFile |-> wr.file, err |-> wr.err, truncated |-> over]

\* Mutant of RecordMismatchResult: the set is updated only once the file is written.
RecordMismatchWriteFirst(known, f, txHash, read, write) ==
    IF txHash \in known
    THEN [knownMismatches |-> known, mismatchFile |-> f, err |-> FALSE, truncated |-> FALSE]
    ELSE LET all == Append(SelectHashLines(ReadLines(f, read)), txHash)
             over == Len(all) > maxMismatchEntries
             entries == IF over THEN LastN(all, maxMismatchEntries) ELSE all
             wr == writeMismatchFile(f, entries, write)
         IN  [knownMismatches |-> IF wr.err THEN known
                                  ELSE IF over THEN Range(entries) ELSE known \cup {txHash},
              mismatchFile |-> wr.file, err |-> wr.err, truncated |-> over]

\* Mutant of RecordMismatchResult: a hash already known is written again.
RecordMismatchNoKnownCheck(known, f, txHash, read, write) ==
    LET all == Append(SelectHashLines(ReadLines(f, read)), txHash)
        over == Len(all) > maxMismatchEntries
        entries == IF over THEN LastN(all, maxMismatchEntries) ELSE all
        wr == writeMismatchFile(f, entries, write)
    IN  [knownMismatches |-> IF over THEN Range(entries) ELSE known \cup {txHash},
         mismatchFile |-> wr.file, err |-> wr.err, truncated |-> over]

\* Mutant of RecordMismatchResult: a call on a known hash that the file does
\* not list writes the file again with that hash.
RecordMismatchRetryWrites(known, f, txHash, read, write) ==
    LET listed == SelectHashLines(ReadLines(f, read))
    IN  IF txHash \in known /\ txHash \in Range(listed)
        THEN [knownMismatches |-> known, mismatchFile |-> f, err |-> FALSE, truncated |-> FALSE]
        ELSE LET all == Append(listed, txHash)
                 over == Len(all) > maxMismatchEntries
                 entries == IF over THEN LastN(all, maxMismatchEntries) ELSE all
                 wr == writeMismatchFile(f, entries, write)
             IN  [knownMismatches |-> IF over THEN Range(entries) ELSE known \cup {txHash},
                  mismatchFile |-> wr.file, err |-> wr.err, truncated |-> over]

\* Manager.RecordMismatch: the set and the file after the call, the error
\* returned, and whether the truncation branch was taken
RecordMismatchResult(known, f, txHash, read, write) ==
    IF txHash \in known
    THEN [knownMismatches |-> known, mismatchFile |-> f, err |-> FALSE, truncated |-> FALSE]
    ELSE LET all == Append(SelectHashLines(ReadLines(f, read)), txHash)
             over == Len(all) > maxMismatchEntries
             entries == IF over THEN LastN(all, maxMismatchEntries) ELSE all
             wr == writeMismatchFile(f, entries, write)
         IN  [knownMismatches |-> IF over THEN Range(entries) ELSE known \cup {txHash},
              mismatchFile |-> wr.file, err |-> wr.err, truncated |-> over]

\* Manager.IsKnownMismatch
IsKnownMismatchIn(known, txHash) == txHash \in known

-----------------------------------------------------------------------------
(* The rule of section 4.1 for footprint strings, stated on its own *)

HexCharSet == (48..57) \cup (97..102) \cup (65..70)
ValidFootprintRule(s) ==
    \/ s = <<>>
    \/ \E p \in {<<>>, Prefix0x, Prefix0X} :
          /\ HasPrefix(s, p)
          /\ Len(s) - Len(p) = 64
          /\ \A i \in (Len(p) + 1)..Len(s) : s[i] \in HexCharSet

-----------------------------------------------------------------------------
(* The LRU cache of solana metadata (package core, solanaMetadataCache) *)

\* The largest capacity a cache is built with, and the number of block hashes
MaxCapacity == 2
NumBlockHashes == 3
BlockHashes == 1..NumBlockHashes

\* The (slot, solanaHash) pairs passed to Add
MetaValues == {[slot |-> 7, solanaHash |-> 17], [slot |-> 9, solanaHash |-> 19]}

solanaMetadataEntry(blockHash, slot, solanaHash) ==
    [blockHash |-> blockHash, slot |-> slot, solanaHash |-> solanaHash]

newSolanaMetadataCache(cap) == [capacity |-> cap, ll |-> <<>>, cache |-> <<>>]

\* The place in the list of the element that c.cache holds for blockHash
IndexOf(l, blockHash) == CHOOSE i \in 1..Len(l) : l[i].blockHash = blockHash

\* list.MoveToFront of the i-th element
MoveToFront(l, i) == <<l[i]>> \o SubSeq(l, 1, i - 1) \o SubSeq(l, i + 1, Len(l))

\* delete(m, k)
Delete(m, k) == [h \in DOMAIN m \ {k} |-> m[h]]

\* Mutant of EvictBack: the front element is removed.
EvictFront(c) ==
    IF Len(c.ll) > c.capacity
    THEN [c EXCEPT !.ll = Tail(c.ll), !.cache = Delete(c.cache, c.ll[1].blockHash)]
    ELSE c

RECURSIVE EvictBack(_)
\* The loop of Add: while the list is longer than the capacity, its back
\* element is removed from the list and from the map
EvictBack(c) ==
    IF Len(c.ll) > c.capacity /\ c.ll # <<>>
    THEN LET back == c.ll[Len(c.ll)]
         IN  EvictBack([c EXCEPT !.ll = SubSeq(c.ll, 1, Len(c.ll) - 1),
                                 !.cache = Delete(c.cache, back.blockHash)])
    ELSE c

\* Mutant of solanaMetadataCacheAdd: an entry already cached is updated
\* where it is, without MoveToFront.
AddWithoutMove(c, blockHash, slot, solanaHash) ==
    LET e == solanaMetadataEntry(blockHash, slot, solanaHash)
    IN  IF c.capacity <= 0 THEN c
        ELSE IF blockHash \in DOMAIN c.cache
             THEN [c EXCEPT !.ll = [c.ll EXCEPT ![IndexOf(c.ll, blockHash)] = e],
                            !.cache = Put(c.cache, blockHash, e)]
             ELSE EvictBack([c EXCEPT !.ll = <<e>> \o c.ll,
                                      !.cache = Put(c.cache, blockHash, e)])

\* solanaMetadataCache.Add
solanaMetadataCacheAdd(c, blockHash, slot, solanaHash) ==
    LET e == solanaMetadataEntry(blockHash, slot, solanaHash)
    IN  IF c.capacity <= 0 THEN c
        ELSE IF blockHash \in DOMAIN c.cache
             THEN LET i == IndexOf(c.ll, blockHash)
                  IN  [c EXCEPT !.ll = MoveToFront([c.ll EXCEPT ![i] = e], i),
                                !.cache = Put(c.cache, blockHash, e)]
             ELSE EvictBack([c EXCEPT !.ll = <<e>> \o c.ll,
                                      !.cache = Put(c.cache, blockHash, e)])

\* solanaMetadataCache.Get
solanaMetadataCacheGet(c, blockHash) ==
    IF blockHash \in DOMAIN c.cache
    THEN [slot |-> c.cache[blockHash].slot, solanaHash |-> c.cache[blockHash].solanaHash,
          ok |-> TRUE]
    ELSE [slot |-> 0, solanaHash |-> 0, ok |-> FALSE]

-----------------------------------------------------------------------------
(* The solana metadata records of the key-value store (package rawdb) *)

\* The bytes of a uint64, scaled down from 8: the records are laid out in
\* bytes, so a uint64 here has more than one
Uint64Bytes == 2
Uint64Range == 256 ^ Uint64Bytes
MaxSlot == Uint64Range - 1
MinInt64 == 0 - (Uint64Range \div 2)
MaxInt64 == (Uint64Range \div 2) - 1

RECURSIVE PutUint(_, _)
\* binary.BigEndian.PutUint64, on n bytes: the most significant byte first
PutUint(v, n) == IF n = 0 THEN <<>> ELSE Append(PutUint(v \div 256, n - 1), v % 256)

RECURSIVE BigEndianUint(_)
\* binary.BigEndian.Uint64, on the bytes given
BigEndianUint(b) ==
    IF b = <<>> THEN 0
    ELSE BigEndianUint(SubSeq(b, 1, Len(b) - 1)) * 256 + b[Len(b)]

\* The conversions uint64(timestamp) and int64(u)
ToUint64(t) == t % Uint64Range
ToInt64(u) == IF u > MaxInt64 THEN u - Uint64Range ELSE u

\* common.Hash.Bytes and the copy into a common.Hash
HashBytes(h) == PutUint(h, HashLength)
ZeroHash == 0

\* "solana-meta-" and "solana-tx-meta-"
solanaMetadataPrefix == <<115, 111, 108, 97, 110, 97, 45, 109, 101, 116, 97, 45>>
solanaTxMetadataPrefix == <<115, 111, 108, 97, 110, 97, 45, 116, 120, 45, 109, 101, 116, 97, 45>>
solanaMetadataKey(blockHash) == solanaMetadataPrefix \o HashBytes(blockHash)
solanaTxMetadataKey(txHash) == solanaTxMetadataPrefix \o HashBytes(txHash)

\* ethdb: Put stores the value unless it fails; Get returns the value, or an
\* error when the key is absent or the read fails
dbPut(d, key, value, putErr) == IF putErr THEN d ELSE Put(d, key, value)
dbGet(d, key, getErr) ==
    IF getErr \/ key \notin DOMAIN d THEN [data |-> <<>>, err |-> TRUE]
    ELSE [data |-> d[key], err |-> FALSE]

\* The value written by WriteSolanaMetadata of part_002 (the slot)
EncodeSlot(slot) == PutUint(slot, Uint64Bytes)

\* The value written by WriteSolanaMetadata of rawdb/solana_metadata.go (the
\* slot and the hash)
EncodeSlotHash(slot, solanaHash) == PutUint(slot, Uint64Bytes) \o HashBytes(solanaHash)

\* Mutant of EncodeTx: the timestamp is written first.
EncodeTxSwapped(slot, timestamp) ==
    PutUint(ToUint64(timestamp), Uint64Bytes) \o PutUint(slot, Uint64Bytes)

\* The value written by WriteSolanaTxMetadata
EncodeTx(slot, timestamp) ==
    PutUint(slot, Uint64Bytes) \o PutUint(ToUint64(timestamp), Uint64Bytes)

\* ReadSolanaMetadata of part_002, from what db.Get returned
DecodeSlot(got) ==
    IF got.err \/ Len(got.data) < Uint64Bytes THEN [slot |-> 0, ok |-> FALSE]
    ELSE [slot |-> BigEndianUint(SubSeq(got.data, 1, Uint64Bytes)), ok |-> TRUE]

\* ReadSolanaMetadata of rawdb/solana_metadata.go, from what db.Get returned
DecodeSlotHash(got) ==
    IF got.err \/ Len(got.data) < Uint64Bytes
    THEN [slot |-> 0, solanaHash |-> ZeroHash, ok |-> FALSE]
    ELSE [slot |-> BigEndianUint(SubSeq(got.data, 1, Uint64Bytes)),
          solanaHash |-> IF Len(got.data) >= Uint64Bytes + HashLength
                         THEN BigEndianUint(SubSeq(got.data, Uint64Bytes + 1,
                                                   Uint64Bytes + HashLength))
                         ELSE ZeroHash,
          ok |-> TRUE]

\* Mutant of DecodeTx: a value longer than the record is accepted.
DecodeTxAtLeast(got) ==
    IF got.err \/ Len(got.data) < 2 * Uint64Bytes
    THEN [slot |-> 0, timestamp |-> 0, ok |-> FALSE]
    ELSE [slot |-> BigEndianUint(SubSeq(got.data, 1, Uint64Bytes)),
          timestamp |-> ToInt64(BigEndianUint(SubSeq(got.data, Uint64Bytes + 1, 2 * Uint64Bytes))),
          ok |-> TRUE]

\* ReadSolanaTxMetadata, from what db.Get returned
DecodeTx(got) ==
    IF got.err \/ Len(got.data) # 2 * Uint64Bytes
    THEN [slot |-> 0, timestamp |-> 0, ok |-> FALSE]
    ELSE [slot |-> BigEndianUint(SubSeq(got.data, 1, Uint64Bytes)),
          timestamp |-> ToInt64(BigEndianUint(SubSeq(got.data, Uint64Bytes + 1, 2 * Uint64Bytes))),
          ok |-> TRUE]

\* The slots, hashes and timestamps written, and the values another writer
\* may have left under a key: 0 to 2 * Uint64Bytes + HashLength bytes
SampleSlots == {0, 258, MaxSlot}
SampleSolanaHashes == {26, 256 ^ HashLength - 1}
SampleTimestamps == {MinInt64, 0 - 258, MaxInt64}
RawValues == {[i \in 1..n |-> i] : n \in 0..(2 * Uint64Bytes + HashLength)}

-----------------------------------------------------------------------------
(* The resolver of the block context (package core, NewEVMBlockContext) *)

\* A header is [Hash, ParentHash, Number]; Number is <<>> (nil) or <<n>>, and
\* n fits a uint64 iff n < Uint64Range. A pointer argument is <<>> (nil) or
\* <<v>>. Block hashes are numbered here: their width plays no part.
Header(hash, parentHash, number) ==
    [Hash |-> hash, ParentHash |-> parentHash, Number |-> number]
IsUint64(n) == n < Uint64Range

\* The chain behind the ChainContext: the block of height n has hash n + 1
\* and parent hash n, so that the parent hash of the genesis block is the
\* zero hash. A chain is [top, missing, noMeta, dup]: it has the blocks of
\* heights 0..top; GetHeader does not return those in missing; the store
\* records slot SlotAt(n) and hash MetaHashAt(n) for the block of height n,
\* the slot DupSlot instead for the heights in dup, and nothing for those in
\* noMeta.
HeaderAt(n) == Header(n + 1, n, <<n>>)
SlotAt(n) == 1000 + n
MetaHashAt(n) == 2000 + n
DupSlot == SlotAt(0) - 1
UnrecordedSlot == SlotAt(0) - 2
OverrideHash == MetaHashAt(0) - 1

\* ChainContext.GetHeader: <<>> is nil
GetHeader(c, hash, number) ==
    IF number \in 0..c.top /\ hash = number + 1 /\ number \notin c.missing
    THEN <<HeaderAt(number)>> ELSE <<>>

\* ChainContext.GetSolanaMetadata
GetSolanaMetadata(c, blockHash) ==
    LET n == blockHash - 1
    IN  IF n \in 0..c.top /\ n \notin c.noMeta
        THEN [slot |-> IF n \in c.dup THEN DupSlot ELSE SlotAt(n),
              hash |-> MetaHashAt(n), ok |-> TRUE]
        ELSE [slot |-> 0, hash |-> ZeroHash, ok |-> FALSE]

\* The bound of the loop of getSolanaHash
AncestorLimit == 256

\* What getSolanaHash returns, with the numbers of GetHeader and
\* GetSolanaMetadata calls it made and the farthest ancestor it inspected
Resolved(hash, ok, headers, metas, hops) ==
    [hash |-> hash, ok |-> ok, getHeaderCalls |-> headers, metadataCalls |-> metas,
     hops |-> hops]

\* The tests of the loop that break it before GetHeader is called: a zero
\* parent hash, no number, a number beyond uint64, the number 0
Breaks(current) ==
    \/ current.ParentHash = ZeroHash
    \/ current.Number = <<>>
    \/ ~IsUint64(current.Number[1])
    \/ current.Number[1] = 0

\* Mutant of LoopBody: a parent without metadata ends the loop.
LoopBodyStopNoMeta(c, slot, st) ==
    IF st.out # <<>> THEN st
    ELSE IF Breaks(st.current)
         THEN [st EXCEPT !.out = <<Resolved(ZeroHash, FALSE, st.i, st.i + 1, st.i)>>]
    ELSE LET parent == GetHeader(c, st.current.ParentHash, st.current.Number[1] - 1)
             m == GetSolanaMetadata(c, parent[1].Hash)
         IN  CASE parent = <<>>
                    -> [st EXCEPT !.out = <<Resolved(ZeroHash, FALSE, st.i + 1, st.i + 1, st.i)>>]
               [] parent # <<>> /\ m.ok /\ m.slot = slot
                    -> [st EXCEPT !.out = <<Resolved(m.hash, TRUE, st.i + 1, st.i + 2, st.i + 1)>>]
               [] parent # <<>> /\ ~m.ok
                    -> [st EXCEPT !.out = <<Resolved(ZeroHash, FALSE, st.i + 1, st.i + 2, st.i + 1)>>]
               [] OTHER -> [current |-> parent[1], i |-> st.i + 1, out |-> <<>>]

\* One round of the loop, from the state st = [current, i, out] of the loop;
\* out is <<>> while the loop runs and holds what is returned once it is left
LoopBody(c, slot, st) ==
    IF st.out # <<>> THEN st
    ELSE IF Breaks(st.current)
         THEN [st EXCEPT !.out = <<Resolved(ZeroHash, FALSE, st.i, st.i + 1, st.i)>>]
    ELSE LET parent == GetHeader(c, st.current.ParentHash, st.current.Number[1] - 1)
             m == GetSolanaMetadata(c, parent[1].Hash)
         IN  CASE parent = <<>>
                    -> [st EXCEPT !.out = <<Resolved(ZeroHash, FALSE, st.i + 1, st.i + 1, st.i)>>]
               [] parent # <<>> /\ m.ok /\ m.slot = slot
                    -> [st EXCEPT !.out = <<Resolved(m.hash, TRUE, st.i + 1, st.i + 2, st.i + 1)>>]
               [] OTHER -> [current |-> parent[1], i |-> st.i + 1, out |-> <<>>]

RECURSIVE Rounds(_, _, _, _)
\* n rounds of the loop, or fewer if the loop is left before; run as two halves
Rounds(c, slot, st, n) ==
    IF n <= 0 \/ st.out # <<>> THEN st
    ELSE IF n = 1 THEN LoopBody(c, slot, st)
    ELSE Rounds(c, slot, Rounds(c, slot, st, n \div 2), n - (n \div 2))

\* The loop of getSolanaHash from its i-th round, at the header current, with
\* the bound of the loop as limit; the metadata of the header of the context
\* has been read before
WalkTo(c, current, slot, i, limit) ==
    LET st == Rounds(c, slot, [current |-> current, i |-> i, out |-> <<>>], limit - i)
    IN  IF st.out # <<>> THEN st.out[1]
        ELSE Resolved(ZeroHash, FALSE, st.i, st.i + 1, st.i)

\* Mutants of Walk: the loop runs once more, or once less.
WalkOneMore(c, current, slot, i) == WalkTo(c, current, slot, i, AncestorLimit + 1)
WalkOneLess(c, current, slot, i) == WalkTo(c, current, slot, i, AncestorLimit - 1)

\* The loop of getSolanaHash: for i := 0; i < 256; i++
Walk(c, current, slot, i) == WalkTo(c, current, slot, i, AncestorLimit)

\* NewEVMBlockContext, for a chain that is not nil: the solanaBlockNumber and
\* solanaBlockHash that getSolanaHash captures
NewContext(h, c, solanaBlockNumber, solanaBlockHash) ==
    IF solanaBlockNumber = <<>> \/ solanaBlockHash = <<>>
    THEN LET m == GetSolanaMetadata(c, h.Hash)
         IN  IF m.ok
             THEN [SolanaBlockNumber |-> <<m.slot>>, SolanaBlockHash |-> <<m.hash>>]
             ELSE [SolanaBlockNumber |-> solanaBlockNumber, SolanaBlockHash |-> solanaBlockHash]
    ELSE [SolanaBlockNumber |-> solanaBlockNumber, SolanaBlockHash |-> solanaBlockHash]

\* Mutant of getSolanaHash: the store is asked about the header before the
\* captured slot is compared.
getSolanaHashStoreFirst(ctx, h, c, slot) ==
    LET m == GetSolanaMetadata(c, h.Hash)
    IN  IF m.ok /\ m.slot = slot THEN Resolved(m.hash, TRUE, 0, 1, 0)
        ELSE IF /\ ctx.SolanaBlockNumber # <<>> /\ ctx.SolanaBlockNumber[1] = slot
                /\ ctx.SolanaBlockHash # <<>>
             THEN Resolved(ctx.SolanaBlockHash[1], TRUE, 0, 1, 0)
             ELSE Walk(c, h, slot, 0)

\* Mutant of getSolanaHash: the captured pair is not looked at.
getSolanaHashSkipCaptured(ctx, h, c, slot) ==
    LET m == GetSolanaMetadata(c, h.Hash)
    IN  IF m.ok /\ m.slot = slot THEN Resolved(m.hash, TRUE, 0, 1, 0)
        ELSE Walk(c, h, slot, 0)

\* getSolanaHash, the closure that NewEVMBlockContext builds
getSolanaHash(ctx, h, c, slot) ==
    IF /\ ctx.SolanaBlockNumber # <<>> /\ ctx.SolanaBlockNumber[1] = slot
       /\ ctx.SolanaBlockHash # <<>>
    THEN Resolved(ctx.SolanaBlockHash[1], TRUE, 0, 0, 0)
    ELSE LET m == GetSolanaMetadata(c, h.Hash)
         IN  IF m.ok /\ m.slot = slot THEN Resolved(m.hash, TRUE, 0, 1, 0)
             ELSE Walk(c, h, slot, 0)

\* Mutant of EthLoopBody: the walk goes on below a header that GetHeader does
\* not return.
EthLoopBodyPastMissing(c, ethBlockNum, st) ==
    IF st.out # <<>> THEN st
    ELSE IF st.current = <<>> \/ ~IsUint64(st.current[1].Number[1])
         THEN [st EXCEPT !.out = <<Resolved(ZeroHash, FALSE, st.i, 0, st.i)>>]
    ELSE LET current == st.current[1]
             number == ToUint64(current.Number[1])
             m == GetSolanaMetadata(c, current.Hash)
         IN  CASE number = ethBlockNum
                    -> [st EXCEPT !.out = <<Resolved(IF m.ok THEN m.hash ELSE ZeroHash,
                                                     m.ok, st.i, 1, st.i)>>]
               [] number # ethBlockNum
                  /\ (number < ethBlockNum \/ number = 0 \/ current.ParentHash = ZeroHash)
                    -> [st EXCEPT !.out = <<Resolved(ZeroHash, FALSE, st.i, 0, st.i)>>]
               [] OTHER -> [current |-> <<HeaderAt(number - 1)>>,
                            i |-> st.i + 1, out |-> <<>>]

\* One round of the loop of getSolanaHashByEthBlock, from the state
\* st = [current, i, out] of the loop: current is <<>> (nil) or <<header>>, i
\* counts the GetHeader calls made, out is <<>> while the loop runs
EthLoopBody(c, ethBlockNum, st) ==
    IF st.out # <<>> THEN st
    ELSE IF st.current = <<>> \/ ~IsUint64(st.current[1].Number[1])
         THEN [st EXCEPT !.out = <<Resolved(ZeroHash, FALSE, st.i, 0, st.i)>>]
    ELSE LET current == st.current[1]
             number == ToUint64(current.Number[1])
             m == GetSolanaMetadata(c, current.Hash)
         IN  CASE number = ethBlockNum
                    -> [st EXCEPT !.out = <<Resolved(IF m.ok THEN m.hash ELSE ZeroHash,
                                                     m.ok, st.i, 1, st.i)>>]
               [] number # ethBlockNum
                  /\ (number < ethBlockNum \/ number = 0 \/ current.ParentHash = ZeroHash)
                    -> [st EXCEPT !.out = <<Resolved(ZeroHash, FALSE, st.i, 0, st.i)>>]
               [] OTHER -> [current |-> GetHeader(c, current.ParentHash, number - 1),
                            i |-> st.i + 1, out |-> <<>>]

RECURSIVE EthRounds(_, _, _, _)
\* n rounds of that loop, or fewer if the loop is left before; run as two halves
EthRounds(c, ethBlockNum, st, n) ==
    IF n <= 0 \/ st.out # <<>> THEN st
    ELSE IF n = 1 THEN EthLoopBody(c, ethBlockNum, st)
    ELSE EthRounds(c, ethBlockNum, EthRounds(c, ethBlockNum, st, n \div 2), n - (n \div 2))

\* The loop of getSolanaHashByEthBlock from the header start: for current :=
\* start; current != nil. It has no counter; each round but the last lowers
\* the number of current by one, so it is left within number + 2 rounds.
WalkByNumber(c, start, ethBlockNum) ==
    LET st == EthRounds(c, ethBlockNum, [current |-> <<start>>, i |-> 0, out |-> <<>>],
                        ToUint64(start.Number[1]) + 2)
    IN  st.out[1]

\* Mutants of getSolanaHashByEthBlock: a number above that of the header is
\* taken as that of the header; and the walk starts at the parent.
getSolanaHashByEthBlockClamped(h, c, ethBlockNum) ==
    LET number == ToUint64(h.Number[1])
    IN  WalkByNumber(c, h, IF ethBlockNum > number THEN number ELSE ethBlockNum)
getSolanaHashByEthBlockFromParent(h, c, ethBlockNum) ==
    LET number == ToUint64(h.Number[1])
        parent == GetHeader(c, h.ParentHash, number - 1)
    IN  IF ethBlockNum > number \/ parent = <<>> THEN Resolved(ZeroHash, FALSE, 0, 0, 0)
        ELSE WalkByNumber(c, parent[1], ethBlockNum)

\* getSolanaHashByEthBlock, the second closure that NewEVMBlockContext builds
getSolanaHashByEthBlock(h, c, ethBlockNum) ==
    LET number == ToUint64(h.Number[1])
        offset == ToUint64(number - ethBlockNum)
    IN  IF offset > number \/ ethBlockNum > number
        THEN Resolved(ZeroHash, FALSE, 0, 0, 0)
        ELSE WalkByNumber(c, h, ethBlockNum)

-----------------------------------------------------------------------------
(* The environment of the process and the configuration read from it *)

\* os.Getenv: the value of the variable; an unset variable reads as ""
Getenv(e, name) == e[name]
EmptyString == <<>>
TrueString == <<116, 114, 117, 101>>

\* The decimal digits of a natural number, as a string
RECURSIVE Decimal(_)
Decimal(n) == IF n < 10 THEN <<48 + n>> ELSE Append(Decimal(n \div 10), 48 + (n % 10))

\* The value of a string of digits, from the value acc of the digits before
\* it; Uint64Range stands for every value that does not fit a uint64
RECURSIVE DigitsValue(_, _)
DigitsValue(str, acc) ==
    IF str = <<>> THEN acc
    ELSE LET v == 10 * acc + (Head(str) - 48)
         IN  IF v >= Uint64Range THEN Uint64Range ELSE DigitsValue(Tail(str), v)

\* strconv.ParseUint(s, 10, 64): a syntax error for the empty string and for
\* a character that is not a digit (a sign too), a range error beyond uint64
ParseUint(str) ==
    IF str = <<>> \/ \E i \in 1..Len(str) : str[i] \notin 48..57
    THEN [val |-> 0, err |-> TRUE]
    ELSE LET v == DigitsValue(str, 0)
         IN  IF v >= Uint64Range THEN [val |-> Uint64Range - 1, err |-> TRUE]
             ELSE [val |-> v, err |-> FALSE]

DefaultMaxMismatchEntries == 10000

\* Mutant of MaxMismatchEntriesOf: a parsed zero is taken.
MaxMismatchEntriesAcceptZero(e) ==
    LET envMax == Getenv(e, "GETH_FOOTPRINT_MAX_MISMATCHES")
    IN  IF envMax # EmptyString /\ ~ParseUint(envMax).err
        THEN ParseUint(envMax).val ELSE DefaultMaxMismatchEntries

\* The maxMismatchEntries that GetManager gives the Manager
MaxMismatchEntriesOf(e) ==
    LET envMax == Getenv(e, "GETH_FOOTPRINT_MAX_MISMATCHES")
        parsed == ParseUint(envMax)
    IN  IF envMax # EmptyString
        THEN IF ~parsed.err /\ parsed.val > 0 THEN parsed.val ELSE DefaultMaxMismatchEntries
        ELSE DefaultMaxMismatchEntries

\* Mutant of ShouldPanicOf: every value that is set counts.
ShouldPanicIfSet(e) == Getenv(e, "GETH_FOOTPRINT_PANIC") # EmptyString

\* Manager.ShouldPanic
ShouldPanicOf(e) == Getenv(e, "GETH_FOOTPRINT_PANIC") = TrueString

\* FootprintMismatchTracker.ShouldPanic
TrackerShouldPanicOf(e) == Getenv(e, "GETH_FOOTPRINT_PANIC") # TrueString

\* The environment of the runs that do not change it: the panic toggle is
\* unset and the maximum is set to maxMismatchEntries
LedgerEnv ==
    [GETH_FOOTPRINT_PANIC |-> EmptyString,
     GETH_FOOTPRINT_MAX_MISMATCHES |-> Decimal(maxMismatchEntries)]

-----------------------------------------------------------------------------
(* Bounds of the runs *)

\* The number of RecordMismatch calls followed from an empty ledger
MaxCalls == 4

\* The ledger files found at start: none; or the lines of the first n hashes,
\* n up to maxMismatchEntries + 1, with or without a comment line and a blank
\* line before them; or one hash twice
HashLine(i) == Hex(16 * i + 9 + i)
InitialFiles ==
    {NoFile}
    \cup {FileOf(p \o [i \in 1..n |-> HashLine(i)]) :
            p \in {<<>>, <<CommentLine, BlankLine>>}, n \in 0..(maxMismatchEntries + 1)}
    \cup {FileOf(<<HashLine(1), HashLine(1)>>)}

-----------------------------------------------------------------------------
(* Actions *)

LedgerHistory == <<recorded, followed, calls, allNil>>

\* GetManager: the once-body builds the Manager and loads the ledger; a later
\* call returns the same Manager.
GetManager ==
    /\ \/ /\ ~constructed
          /\ \E read \in -1..Len(mismatchFile.lines), write \in -1..maxMismatchEntries :
                LET res == loadKnownMismatches(mismatchFile, read, write)
                IN  /\ ~mismatchFile.exists => read = Len(mismatchFile.lines)
                    /\ knownMismatches' = res.knownMismatches
                    /\ mismatchFile' = res.mismatchFile
                    /\ configuredMax' = MaxMismatchEntriesOf(env)
                    /\ followed' = (followed /\ ~(mismatchFile.exists /\ read < 0))
                    /\ allNil' = (/\ allNil
                                  /\ ~(mismatchFile.exists /\ read < Len(mismatchFile.lines))
                                  /\ Len(SelectHashLines(mismatchFile.lines)) > maxMismatchEntries
                                        => write = maxMismatchEntries)
          /\ constructed' = TRUE
          /\ cache' = EmptyCache
       \/ /\ constructed
          /\ UNCHANGED <<configuredMax, constructed, cache, knownMismatches, mismatchFile, followed, allNil>>
    /\ last' = [op |-> "GetManager"]
    /\ UNCHANGED <<stored, recorded, calls>>
    /\ UNCHANGED Outside

Store(txHash, expectedFootprint, actualFootprint, blockNumber, mismatch) ==
    /\ constructed
    /\ cache' = StoreCache(cache, txHash, expectedFootprint, actualFootprint, blockNumber, mismatch)
    /\ stored' = IF ValidFootprintRule(expectedFootprint) /\ ValidFootprintRule(actualFootprint)
                 THEN Put(stored, txHash, Entry(expectedFootprint, actualFootprint, blockNumber, mismatch))
                 ELSE stored
    /\ last' = [op |-> "Store", txHash |-> txHash,
                expectedValid |-> ValidFootprintRule(expectedFootprint),
                actualValid |-> ValidFootprintRule(actualFootprint)]
    /\ UNCHANGED <<configuredMax, constructed, knownMismatches, mismatchFile>>
    /\ UNCHANGED LedgerHistory
    /\ UNCHANGED Outside

Get(txHash) ==
    /\ constructed
    /\ LET res == GetCache(cache, txHash)
       IN  last' = [op |-> "Get", txHash |-> txHash, entry |-> res.entry, ok |-> res.ok]
    /\ UNCHANGED <<configuredMax, constructed, cache, knownMismatches, mismatchFile, stored>>
    /\ UNCHANGED LedgerHistory
    /\ UNCHANGED Outside

EvictOldEntries(currentBlockNumber) ==
    /\ constructed
    /\ cache' = EvictOld(cache, currentBlockNumber)
    /\ stored' = [h \in DOMAIN stored \cap DOMAIN cache' |-> stored[h]]
    /\ last' = [op |-> "EvictOldEntries", currentBlockNumber |-> currentBlockNumber,
                evicted |-> Cardinality(DOMAIN cache \ DOMAIN cache')]
    /\ UNCHANGED <<configuredMax, constructed, knownMismatches, mismatchFile>>
    /\ UNCHANGED LedgerHistory
    /\ UNCHANGED Outside

\* Mutant of ClearCache: the known mismatches are cleared with the cache.
ClearCacheAndKnown ==
    /\ constructed
    /\ cache' = EmptyCache
    /\ stored' = EmptyCache
    /\ knownMismatches' = {}
    /\ last' = [op |-> "ClearCache", removed |-> Cardinality(DOMAIN cache)]
    /\ UNCHANGED <<configuredMax, constructed, mismatchFile>>
    /\ UNCHANGED LedgerHistory
    /\ UNCHANGED Outside

\* Manager.ClearCache; removed is the number of entries the cache held
ClearCache ==
    /\ constructed
    /\ cache' = EmptyCache
    /\ stored' = EmptyCache
    /\ last' = [op |-> "ClearCache", removed |-> Cardinality(DOMAIN cache)]
    /\ UNCHANGED <<configuredMax, constructed, knownMismatches, mismatchFile>>
    /\ UNCHANGED LedgerHistory
    /\ UNCHANGED Outside

RecordMismatch(txHash) ==
    /\ constructed
    /\ \E read \in -1..Len(mismatchFile.lines), write \in -1..maxMismatchEntries :
          \* the lines the call has to write, and whether a file operation
          \* of the call fails, from the outcomes chosen for it
          LET toWrite == Min(maxMismatchEntries,
                             Len(SelectHashLines(ReadLines(mismatchFile, read))) + 1)
              fault == /\ txHash \notin knownMismatches
                       /\ \/ (mismatchFile.exists /\ read < Len(mismatchFile.lines))
                          \/ write < toWrite
              res == RecordMismatchResult(knownMismatches, mismatchFile, txHash, read, write)
          IN  \* each outcome is taken once: no failure is chosen for a call
              \* of a known hash, an absent file or a write that is complete
              /\ txHash \in knownMismatches
                    => (read = Len(mismatchFile.lines) /\ write = maxMismatchEntries)
              /\ ~mismatchFile.exists => read = Len(mismatchFile.lines)
              /\ write >= toWrite => write = maxMismatchEntries
              /\ knownMismatches' = res.knownMismatches
              /\ mismatchFile' = res.mismatchFile
              /\ last' = [op |-> "RecordMismatch", txHash |-> txHash, err |-> res.err,
                          truncated |-> res.truncated, fault |-> fault,
                          again |-> (txHash = recorded),
                          retry |-> (/\ last.op = "RecordMismatch" /\ last.txHash = txHash
                                     /\ last.err)]
              /\ followed' = (/\ followed /\ ~fault
                               /\ txHash \notin Range(calls) /\ Len(calls) < MaxCalls)
              /\ allNil' = (allNil /\ ~res.err)
    /\ recorded' = txHash
    /\ calls' = IF followed' THEN Append(calls, txHash) ELSE <<>>
    /\ UNCHANGED <<configuredMax, constructed, cache, stored>>
    /\ UNCHANGED Outside

\* The goroutines that call RecordMismatch concurrently
NumProcs == 3
Procs == 1..NumProcs
Idle == [pc |-> "idle", txHash |-> 0, entries |-> <<>>]

\* Mutant of LockFree: Lock returns at once, whoever holds the lock.
LockFreeAlways(m) == TRUE

\* m.mu.Lock() returns once no goroutine holds the lock
LockFree(m) == m = 0

\* RecordMismatch, step by step: m.mu.Lock()
RecordLock(p, txHash) ==
    /\ constructed
    /\ goroutine[p].pc = "idle"
    /\ LockFree(mu)
    /\ mu' = p
    /\ goroutine' = [goroutine EXCEPT ![p] = [pc |-> "locked", txHash |-> txHash, entries |-> <<>>]]
    /\ UNCHANGED <<configuredMax, constructed, cache, knownMismatches, mismatchFile, last, stored>>
    /\ UNCHANGED LedgerHistory
    /\ UNCHANGED <<LruVars, DbVars, ResolverVars, EnvVars, GateVars, EthapiVars, LruLockVars, TransitionVars>>

\* the test of m.knownMismatches[txHash]: return nil (the deferred Unlock
\* runs), or add the hash to the map
RecordCheck(p) ==
    /\ goroutine[p].pc = "locked"
    /\ IF goroutine[p].txHash \in knownMismatches
       THEN /\ goroutine' = [goroutine EXCEPT ![p].pc = "done"]
            /\ mu' = 0
            /\ UNCHANGED knownMismatches
       ELSE /\ knownMismatches' = knownMismatches \cup {goroutine[p].txHash}
            /\ goroutine' = [goroutine EXCEPT ![p].pc = "read"]
            /\ UNCHANGED mu
    /\ UNCHANGED <<configuredMax, constructed, cache, mismatchFile, last, stored>>
    /\ UNCHANGED LedgerHistory
    /\ UNCHANGED <<LruVars, DbVars, ResolverVars, EnvVars, GateVars, EthapiVars, LruLockVars, TransitionVars>>

\* the existing entries are read from the file
RecordRead(p) ==
    /\ goroutine[p].pc = "read"
    /\ goroutine' = [goroutine EXCEPT
           ![p].entries = SelectHashLines(ReadLines(mismatchFile, Len(mismatchFile.lines))),
           ![p].pc = "write"]
    /\ UNCHANGED <<configuredMax, constructed, cache, knownMismatches, mismatchFile, last, stored, mu>>
    /\ UNCHANGED LedgerHistory
    /\ UNCHANGED <<LruVars, DbVars, ResolverVars, EnvVars, GateVars, EthapiVars, LruLockVars, TransitionVars>>

\* the new entry is appended, the list truncated and written back; the call
\* returns and the deferred Unlock runs
RecordWrite(p) ==
    /\ goroutine[p].pc = "write"
    /\ LET all == Append(goroutine[p].entries, goroutine[p].txHash)
           over == Len(all) > maxMismatchEntries
           entries == IF over THEN LastN(all, maxMismatchEntries) ELSE all
       IN  /\ knownMismatches' = IF over THEN Range(entries) ELSE knownMismatches
           /\ mismatchFile' = writeMismatchFile(mismatchFile, entries, Len(entries)).file
    /\ goroutine' = [goroutine EXCEPT ![p].pc = "done"]
    /\ mu' = 0
    /\ UNCHANGED <<configuredMax, constructed, cache, last, stored>>
    /\ UNCHANGED LedgerHistory
    /\ UNCHANGED <<LruVars, DbVars, ResolverVars, EnvVars, GateVars, EthapiVars, LruLockVars, TransitionVars>>

IsKnownMismatch(txHash) ==
    /\ constructed
    /\ last' = [op |-> "IsKnownMismatch", txHash |-> txHash,
                ret |-> IsKnownMismatchIn(knownMismatches, txHash)]
    /\ UNCHANGED <<configuredMax, constructed, cache, knownMismatches, mismatchFile, stored>>
    /\ UNCHANGED LedgerHistory
    /\ UNCHANGED Outside

\* Mutant of GetStatsOf: every cached entry is counted as a mismatch.
GetStatsCountAll(c, known, max) ==
    [cache_size |-> Cardinality(DOMAIN c),
     cache_mismatch_count |-> Cardinality(DOMAIN c),
     known_mismatches_count |-> Cardinality(known),
     max_cache_age_blocks |-> maxCacheAge,
     max_mismatch_entries |-> max]

\* The map that Manager.GetStats returns, from the cache, the known
\* mismatches and m.maxMismatchEntries
GetStatsOf(c, known, max) ==
    [cache_size |-> Cardinality(DOMAIN c),
     cache_mismatch_count |-> Cardinality({h \in DOMAIN c : c[h].Mismatch}),
     known_mismatches_count |-> Cardinality(known),
     max_cache_age_blocks |-> maxCacheAge,
     max_mismatch_entries |-> max]

GetStats ==
    /\ constructed
    /\ last' = [op |-> "GetStats", stats |-> GetStatsOf(cache, knownMismatches, configuredMax)]
    /\ UNCHANGED <<configuredMax, constructed, cache, knownMismatches, mismatchFile, stored>>
    /\ UNCHANGED LedgerHistory
    /\ UNCHANGED Outside

\* One call of isValidFootprint
Validate(footprint) ==
    /\ last' = [op |-> "isValidFootprint", footprint |-> footprint,
                ret |-> isValidFootprint(footprint)]
    /\ UNCHANGED <<configuredMax, constructed, cache, knownMismatches, mismatchFile, stored>>
    /\ UNCHANGED LedgerHistory
    /\ UNCHANGED Outside

\* The solanaMetadataCache as one value
Cache == [capacity |-> capacity, ll |-> ll, cache |-> cacheMap]

\* A sequence without the element x, and with x put in front
Without(q, x) == SelectSeq(q, LAMBDA y : y # x)
Touch(q, x) == <<x>> \o Without(q, x)
NotInOrder == [inOrder |-> FALSE, seq |-> <<>>]

\* One call of solanaMetadataCache.Add
CacheAdd(blockHash, slot, solanaHash) ==
    /\ LET c == solanaMetadataCacheAdd(Cache, blockHash, slot, solanaHash)
       IN  /\ ll' = c.ll
           /\ cacheMap' = c.cache
           /\ accessed' = IF capacity <= 0 THEN accessed
                          ELSE SelectSeq(Touch(accessed, blockHash),
                                         LAMBDA h : h \in DOMAIN c.cache)
           /\ last' = [op |-> "CacheAdd", blockHash |-> blockHash, slot |-> slot,
                       solanaHash |-> solanaHash,
                       existed |-> (blockHash \in DOMAIN cacheMap),
                       position |-> IF blockHash \in DOMAIN cacheMap
                                    THEN IndexOf(ll, blockHash) ELSE 0,
                       evicted |-> (DOMAIN cacheMap \cup {blockHash}) \ DOMAIN c.cache]
    /\ added' = IF /\ added.inOrder
                   /\ Len(added.seq) <= capacity
                   /\ \A i \in 1..Len(added.seq) : added.seq[i].blockHash # blockHash
                THEN [added EXCEPT !.seq = Append(@, solanaMetadataEntry(blockHash, slot, solanaHash))]
                ELSE NotInOrder
    /\ UNCHANGED capacity
    /\ UNCHANGED <<ManagerVars, ConcurrentVars, DbVars, ResolverVars, EnvVars, GateVars, EthapiVars, LruLockVars, TransitionVars>>

\* One call of solanaMetadataCache.Get
CacheGet(blockHash) ==
    /\ LET res == solanaMetadataCacheGet(Cache, blockHash)
       IN  /\ last' = [op |-> "CacheGet", blockHash |-> blockHash, slot |-> res.slot,
                       solanaHash |-> res.solanaHash, ok |-> res.ok]
           /\ accessed' = IF res.ok THEN Touch(accessed, blockHash) ELSE accessed
    /\ added' = IF Len(added.seq) \in {0, capacity + 1} THEN added ELSE NotInOrder
    /\ UNCHANGED <<capacity, ll, cacheMap>>
    /\ UNCHANGED <<ManagerVars, ConcurrentVars, DbVars, ResolverVars, EnvVars, GateVars, EthapiVars, LruLockVars, TransitionVars>>

\* What the history keeps of a write: its arguments, if db.Put stored it
Written(fn, slot, solanaHash, timestamp, putErr) ==
    IF putErr
    THEN [fn |-> fn, slot |-> 0, solanaHash |-> ZeroHash, timestamp |-> 0, stored |-> FALSE]
    ELSE [fn |-> fn, slot |-> slot, solanaHash |-> solanaHash, timestamp |-> timestamp,
          stored |-> TRUE]

\* WriteSolanaMetadata of part_002
WriteSolanaMetadataSlot(blockHash, slot, putErr) ==
    LET key == solanaMetadataKey(blockHash)
    IN  /\ db' = dbPut(db, key, EncodeSlot(slot), putErr)
        /\ written' = Put(written, key, Written("slot", slot, ZeroHash, 0, putErr))
        /\ last' = [op |-> "WriteSolanaMetadataSlot", key |-> key]
        /\ UNCHANGED <<ManagerVars, ConcurrentVars, LruVars, ResolverVars, EnvVars, GateVars, EthapiVars, LruLockVars, TransitionVars>>

\* WriteSolanaMetadata of rawdb/solana_metadata.go
WriteSolanaMetadata(blockHash, slot, solanaHash, putErr) ==
    LET key == solanaMetadataKey(blockHash)
    IN  /\ db' = dbPut(db, key, EncodeSlotHash(slot, solanaHash), putErr)
        /\ written' = Put(written, key, Written("slotHash", slot, solanaHash, 0, putErr))
        /\ last' = [op |-> "WriteSolanaMetadata", key |-> key]
        /\ UNCHANGED <<ManagerVars, ConcurrentVars, LruVars, ResolverVars, EnvVars, GateVars, EthapiVars, LruLockVars, TransitionVars>>

WriteSolanaTxMetadata(txHash, slot, timestamp, putErr) ==
    LET key == solanaTxMetadataKey(txHash)
    IN  /\ db' = dbPut(db, key, EncodeTx(slot, timestamp), putErr)
        /\ written' = Put(written, key, Written("tx", slot, ZeroHash, timestamp, putErr))
        /\ last' = [op |-> "WriteSolanaTxMetadata", key |-> key]
        /\ UNCHANGED <<ManagerVars, ConcurrentVars, LruVars, ResolverVars, EnvVars, GateVars, EthapiVars, LruLockVars, TransitionVars>>

\* Another writer of the store leaves a value under a key
PutRaw(key, value) ==
    /\ db' = dbPut(db, key, value, FALSE)
    /\ written' = Put(written, key, Written("raw", 0, ZeroHash, 0, FALSE))
    /\ last' = [op |-> "PutRaw", key |-> key]
    /\ UNCHANGED <<ManagerVars, ConcurrentVars, LruVars, ResolverVars, EnvVars, GateVars, EthapiVars, LruLockVars, TransitionVars>>

\* What a read leaves in last: the result, and what the store held
ReadRecord(op, key, getErr, res) ==
    [op |-> op, key |-> key, getErr |-> getErr, absent |-> (key \notin DOMAIN db),
     length |-> IF key \in DOMAIN db THEN Len(db[key]) ELSE 0, res |-> res]

\* ReadSolanaMetadata of part_002
ReadSolanaMetadataSlot(blockHash, getErr) ==
    LET key == solanaMetadataKey(blockHash)
    IN  /\ last' = ReadRecord("ReadSolanaMetadataSlot", key, getErr,
                              DecodeSlot(dbGet(db, key, getErr)))
        /\ UNCHANGED <<ManagerVars, ConcurrentVars, LruVars, DbVars, ResolverVars, EnvVars, GateVars, EthapiVars, LruLockVars, TransitionVars>>

\* ReadSolanaMetadata of rawdb/solana_metadata.go
ReadSolanaMetadata(blockHash, getErr) ==
    LET key == solanaMetadataKey(blockHash)
    IN  /\ last' = ReadRecord("ReadSolanaMetadata", key, getErr,
                              DecodeSlotHash(dbGet(db, key, getErr)))
        /\ UNCHANGED <<ManagerVars, ConcurrentVars, LruVars, DbVars, ResolverVars, EnvVars, GateVars, EthapiVars, LruLockVars, TransitionVars>>

ReadSolanaTxMetadata(txHash, getErr) ==
    LET key == solanaTxMetadataKey(txHash)
    IN  /\ last' = ReadRecord("ReadSolanaTxMetadata", key, getErr,
                              DecodeTx(dbGet(db, key, getErr)))
        /\ UNCHANGED <<ManagerVars, ConcurrentVars, LruVars, DbVars, ResolverVars, EnvVars, GateVars, EthapiVars, LruLockVars, TransitionVars>>

\* NewEVMBlockContext, called with the header and the chain of the run; given
\* keeps the two arguments for the history. It reads header.Number.Uint64()
\* on each of its paths, so it returns a context only for a header that has
\* a number.
NewEVMBlockContext(solanaBlockNumber, solanaBlockHash) ==
    /\ header # <<>> /\ header.Number # <<>>
    /\ LET ctx == NewContext(header, chain, solanaBlockNumber, solanaBlockHash)
       IN  blockCtx' = [SolanaBlockNumber |-> ctx.SolanaBlockNumber,
                        SolanaBlockHash |-> ctx.SolanaBlockHash,
                        given |-> [number |-> solanaBlockNumber, hash |-> solanaBlockHash]]
    /\ last' = [op |-> "NewEVMBlockContext"]
    /\ asked' = {}
    /\ UNCHANGED <<header, chain>>
    /\ UNCHANGED <<ManagerVars, ConcurrentVars, LruVars, DbVars, EnvVars, GateVars, EthapiVars, LruLockVars, TransitionVars>>

\* Mutant of GetSolanaHash: a hash found is kept as the captured pair.
GetSolanaHashCaching(slot) ==
    LET res == getSolanaHash(blockCtx, header, chain, slot)
    IN  /\ blockCtx # <<>>
        /\ last' = [op |-> "GetSolanaHash", slot |-> slot, res |-> res]
        /\ blockCtx' = IF res.ok
                       THEN [blockCtx EXCEPT !.SolanaBlockNumber = <<slot>>,
                                             !.SolanaBlockHash = <<res.hash>>]
                       ELSE blockCtx
        /\ UNCHANGED <<header, chain>>
        /\ UNCHANGED <<ManagerVars, ConcurrentVars, LruVars, DbVars, EnvVars, GateVars, EthapiVars, LruLockVars, TransitionVars>>

\* One call of the GetSolanaHash of the block context
GetSolanaHash(slot) ==
    /\ blockCtx # <<>>
    /\ last' = [op |-> "GetSolanaHash", slot |-> slot,
                res |-> getSolanaHash(blockCtx, header, chain, slot)]
    /\ UNCHANGED <<header, chain, blockCtx>>
    /\ UNCHANGED <<ManagerVars, ConcurrentVars, LruVars, DbVars, EnvVars, GateVars, EthapiVars, LruLockVars, TransitionVars>>

\* One call of the GetSolanaHashByEthBlock of the block context
GetSolanaHashByEthBlock(ethBlockNum) ==
    /\ blockCtx # <<>>
    /\ last' = [op |-> "GetSolanaHashByEthBlock", ethBlockNum |-> ethBlockNum,
                res |-> getSolanaHashByEthBlock(header, chain, ethBlockNum)]
    /\ UNCHANGED <<header, chain, blockCtx>>
    /\ UNCHANGED <<ManagerVars, ConcurrentVars, LruVars, DbVars, EnvVars, GateVars, EthapiVars, LruLockVars, TransitionVars>>

\* The environment is changed from outside the Manager (os.Setenv). The
\* record of the call keeps the result of a ShouldPanic call made just before.
Setenv(name, value) ==
    /\ env' = [env EXCEPT ![name] = value]
    /\ last' = [op |-> "Setenv", name |-> name,
                shouldPanic |-> IF last.op = "ShouldPanic" THEN <<last.ret>> ELSE <<>>]
    /\ UNCHANGED <<ManagerVars, ConcurrentVars, LruVars, DbVars, ResolverVars, GateVars, EthapiVars, LruLockVars, TransitionVars>>

\* Manager.ShouldPanic; before is the result of the ShouldPanic call that a
\* Setenv of the toggle has followed, if that is what came before
ShouldPanic ==
    /\ constructed
    /\ last' = [op |-> "ShouldPanic", ret |-> ShouldPanicOf(env),
                before |-> IF last.op = "Setenv" /\ last.name = "GETH_FOOTPRINT_PANIC"
                           THEN last.shouldPanic ELSE <<>>]
    /\ UNCHANGED <<ManagerVars, ConcurrentVars, LruVars, DbVars, ResolverVars, EnvVars, GateVars, EthapiVars, LruLockVars, TransitionVars>>

\* FootprintMismatchTracker.ShouldPanic; the method reads the environment
\* only, and no field of its receiver
TrackerShouldPanic ==
    /\ last' = [op |-> "TrackerShouldPanic", ret |-> TrackerShouldPanicOf(env)]
    /\ UNCHANGED <<ManagerVars, ConcurrentVars, LruVars, DbVars, ResolverVars, EnvVars, GateVars, EthapiVars, LruLockVars, TransitionVars>>

\* The two singletons and their gates. A goroutine calls GetManager or
\* GetFootPrintMismatchTracker with a dataDir; the ledger file of the runs is
\* the one under dataDir 1, and dataDir 2 holds no file.
NumGetters == 2
Getters == 1..NumGetters
DataDirs == {1, 2}
Singletons == {"globalManager", "globalMismatchTracker"}
OnceZero == [done |-> FALSE, m |-> 0]
IdleGetter == [pc |-> "idle", singleton |-> "", dataDir |-> 0, ret |-> <<>>]
FileAt(dataDir) == IF dataDir = 1 THEN mismatchFile ELSE NoFile

\* The constructions followed (none is made beyond them)
MaxConstructions == 2

\* Mutant of GetCall: no Once; the body is run if the global pointer is nil.
GetCallNoOnce(p, k, dataDir) ==
    /\ getter[p].pc = "idle"
    /\ getter' = [getter EXCEPT ![p] =
           [pc |-> IF global[k] # <<>> THEN "return" ELSE "construct",
            singleton |-> k, dataDir |-> dataDir, ret |-> <<>>]]
    /\ UNCHANGED <<once, global, built, tracker, last>>
    /\ UNCHANGED <<ManagerVars, ConcurrentVars, LruVars, DbVars, ResolverVars, EnvVars, EthapiVars, LruLockVars, TransitionVars>>

\* GetManager(dataDir) or GetFootPrintMismatchTracker(dataDir) is called:
\* once.Do reads done, and returns at once if it is set
GetCall(p, k, dataDir) ==
    /\ getter[p].pc = "idle"
    /\ getter' = [getter EXCEPT ![p] =
           [pc |-> IF once[k].done THEN "return" ELSE "doSlow",
            singleton |-> k, dataDir |-> dataDir, ret |-> <<>>]]
    /\ UNCHANGED <<once, global, built, tracker, last>>
    /\ UNCHANGED <<ManagerVars, ConcurrentVars, LruVars, DbVars, ResolverVars, EnvVars, EthapiVars, LruLockVars, TransitionVars>>

\* once.doSlow: the mutex of the Once is taken; done is read again, and the
\* mutex released at once if it is set
OnceDoSlow(p) ==
    LET k == getter[p].singleton
    IN  /\ getter[p].pc = "doSlow"
        /\ once[k].m = 0
        /\ IF once[k].done
           THEN /\ getter' = [getter EXCEPT ![p].pc = "return"]
                /\ UNCHANGED once
           ELSE /\ getter' = [getter EXCEPT ![p].pc = "construct"]
                /\ once' = [once EXCEPT ![k].m = p]
        /\ UNCHANGED <<global, built, tracker, last>>
        /\ UNCHANGED <<ManagerVars, ConcurrentVars, LruVars, DbVars, ResolverVars, EnvVars, EthapiVars, LruLockVars, TransitionVars>>

\* The body given to once.Do, first part: the singleton is built, with empty
\* maps, and assigned to the global pointer
OnceBodyConstruct(p) ==
    LET k == getter[p].singleton
    IN  /\ getter[p].pc = "construct"
        /\ built[k].constructions < MaxConstructions
        /\ global' = [global EXCEPT ![k] =
               <<[id |-> built[k].constructions + 1, dataDir |-> getter[p].dataDir,
                  loaded |-> FALSE]>>]
        /\ built' = [built EXCEPT ![k].constructions = @ + 1]
        /\ IF k = "globalManager"
           THEN /\ constructed' = TRUE
                /\ cache' = EmptyCache
                /\ knownMismatches' = {}
                /\ configuredMax' = MaxMismatchEntriesOf(env)
                /\ UNCHANGED tracker
           ELSE /\ tracker' = {}
                /\ UNCHANGED <<constructed, cache, knownMismatches, configuredMax>>
        /\ getter' = [getter EXCEPT ![p].pc = "load"]
        /\ UNCHANGED <<once, last, mismatchFile, stored>>
        /\ UNCHANGED LedgerHistory
        /\ UNCHANGED <<ConcurrentVars, LruVars, DbVars, ResolverVars, EnvVars, EthapiVars, LruLockVars, TransitionVars>>

\* The body, second part: loadKnownMismatches, or load, on the global singleton
OnceBodyLoad(p) ==
    LET k == getter[p].singleton
        f == FileAt(global[k][1].dataDir)
    IN  /\ getter[p].pc = "load"
        /\ \E read \in {-1, Len(f.lines)} :
              /\ ~f.exists => read = Len(f.lines)
              /\ IF k = "globalManager"
                 THEN LET res == loadKnownMismatches(f, read, maxMismatchEntries)
                      IN  /\ knownMismatches' = res.knownMismatches
                          /\ mismatchFile' = IF global[k][1].dataDir = 1
                                             THEN res.mismatchFile ELSE mismatchFile
                          /\ UNCHANGED tracker
                 ELSE /\ tracker' = IF OpenFailed(f, read) THEN tracker
                                    ELSE tracker \cup Range(SelectHashLines(ReadLines(f, read)))
                      /\ UNCHANGED <<knownMismatches, mismatchFile>>
        /\ global' = [global EXCEPT ![k] = <<[@[1] EXCEPT !.loaded = TRUE]>>]
        /\ built' = [built EXCEPT ![k].loads = @ + 1]
        /\ getter' = [getter EXCEPT ![p].pc = "finish"]
        /\ UNCHANGED <<once, last, configuredMax, constructed, cache, stored>>
        /\ UNCHANGED LedgerHistory
        /\ UNCHANGED <<ConcurrentVars, LruVars, DbVars, ResolverVars, EnvVars, EthapiVars, LruLockVars, TransitionVars>>

\* The body has returned: doSlow sets done and releases the mutex
OnceDone(p) ==
    LET k == getter[p].singleton
    IN  /\ getter[p].pc = "finish"
        /\ once' = [once EXCEPT ![k] = [done |-> TRUE, m |-> 0]]
        /\ getter' = [getter EXCEPT ![p].pc = "return"]
        /\ UNCHANGED <<global, built, tracker, last>>
        /\ UNCHANGED <<ManagerVars, ConcurrentVars, LruVars, DbVars, ResolverVars, EnvVars, EthapiVars, LruLockVars, TransitionVars>>

\* return globalManager, or return globalMismatchTracker: ret is <<pointer>>
GetReturn(p) ==
    /\ getter[p].pc = "return"
    /\ getter' = [getter EXCEPT ![p].pc = "idle", ![p].ret = <<global[getter[p].singleton]>>]
    /\ UNCHANGED <<once, global, built, tracker, last>>
    /\ UNCHANGED <<ManagerVars, ConcurrentVars, LruVars, DbVars, ResolverVars, EnvVars, EthapiVars, LruLockVars, TransitionVars>>

\* The store behind the chain is written: the block of height n, which had no
\* metadata, gets its record. The calls followed so far are forgotten.
ChainWriteSolanaMetadata(n) ==
    /\ chain # <<>> /\ n \in chain.noMeta
    /\ chain' = [chain EXCEPT !.noMeta = @ \ {n}]
    /\ last' = [op |-> "WriteSolanaMetadata", blockHash |-> HeaderAt(n).Hash]
    /\ asked' = {}
    /\ UNCHANGED <<header, blockCtx>>
    /\ UNCHANGED <<ManagerVars, ConcurrentVars, LruVars, DbVars, EnvVars, GateVars, EthapiVars, LruLockVars, TransitionVars>>

\* The history of a call of a closure: its name, argument and result, and
\* whether a call of that name and argument was followed before
Asked(op, arg, res) ==
    [op |-> op, arg |-> arg, res |-> res,
     again |-> \E a \in asked : a.op = op /\ a.arg = arg]

\* The footprint cache of package ethapi and its registration. A
\* FootprintEntry also carries the time of the Store call, which nothing reads.
NumCallers == 2
Callers == 1..NumCallers
IdleCaller == [pc |-> "idle", op |-> ""]
EthapiFunctions == {"InitFootprintCache", "GetGlobalFootprintCache", "GetFootprintAPIs"}

\* a - b in uint64 arithmetic
SubUint64(a, b) == (a - b) % (MaxUint64 + 1)

NewFootprintCache == [entries |-> EmptyCache, maxAge |-> 12]

\* FootprintCache.Store: the cache after the call
FootprintCacheStore(fc, txHash, expectedFootprint, actualFootprint, blockNumber, mismatch) ==
    [fc EXCEPT !.entries =
        Put(@, txHash, Entry(expectedFootprint, actualFootprint, blockNumber, mismatch))]

\* FootprintCache.Get
FootprintCacheGet(fc, txHash) ==
    IF txHash \in DOMAIN fc.entries
    THEN [entry |-> <<fc.entries[txHash]>>, exists |-> TRUE]
    ELSE [entry |-> <<>>, exists |-> FALSE]

\* FootprintCache.EvictOldEntries: the cache after the call
FootprintCacheEvictOld(fc, currentBlockNumber) ==
    [fc EXCEPT !.entries =
        [h \in {t \in DOMAIN @ :
                  ~(SubUint64(currentBlockNumber, @[t].BlockNumber) > fc.maxAge)} |-> @[h]]]

\* A goroutine calls one of the three functions
EthapiCall(p, op) ==
    /\ caller[p].pc = "idle"
    /\ caller' = [caller EXCEPT ![p] =
                    [pc |-> IF op = "InitFootprintCache" THEN "InitCheck" ELSE "GetCheck",
                     op |-> op]]
    /\ UNCHANGED <<globalFootprintCache, footprintCaches, callbacks, returned, served, last>>
    /\ UNCHANGED <<ManagerVars, ConcurrentVars, LruVars, DbVars, ResolverVars, EnvVars, GateVars, LruLockVars, TransitionVars>>

\* GetGlobalFootprintCache: if globalFootprintCache == nil { InitFootprintCache() }
GetCheck(p) ==
    /\ caller[p].pc = "GetCheck"
    /\ caller' = [caller EXCEPT ![p].pc =
                    IF globalFootprintCache = 0 THEN "InitCheck" ELSE "GetReturn"]
    /\ UNCHANGED <<globalFootprintCache, footprintCaches, callbacks, returned, served, last>>
    /\ UNCHANGED <<ManagerVars, ConcurrentVars, LruVars, DbVars, ResolverVars, EnvVars, GateVars, LruLockVars, TransitionVars>>

\* Where a goroutine goes when InitFootprintCache returns
AfterInit(p) == IF caller[p].op = "InitFootprintCache" THEN "idle" ELSE "GetReturn"

\* InitFootprintCache: if globalFootprintCache == nil
InitCheck(p) ==
    /\ caller[p].pc = "InitCheck"
    /\ caller' = [caller EXCEPT ![p].pc =
                    IF globalFootprintCache = 0 THEN "InitNew" ELSE AfterInit(p)]
    /\ UNCHANGED <<globalFootprintCache, footprintCaches, callbacks, returned, served, last>>
    /\ UNCHANGED <<ManagerVars, ConcurrentVars, LruVars, DbVars, ResolverVars, EnvVars, GateVars, LruLockVars, TransitionVars>>

\* globalFootprintCache = NewFootprintCache()
InitNew(p) ==
    /\ caller[p].pc = "InitNew"
    /\ footprintCaches' = Append(footprintCaches, NewFootprintCache)
    /\ globalFootprintCache' = Len(footprintCaches) + 1
    /\ caller' = [caller EXCEPT ![p].pc = "InitRegisterStore"]
    /\ UNCHANGED <<callbacks, returned, served, last>>
    /\ UNCHANGED <<ManagerVars, ConcurrentVars, LruVars, DbVars, ResolverVars, EnvVars, GateVars, LruLockVars, TransitionVars>>

\* core.GlobalFootprintStore = func(...) { globalFootprintCache.Store(...) }
InitRegisterStore(p) ==
    /\ caller[p].pc = "InitRegisterStore"
    /\ callbacks' = [callbacks EXCEPT !.GlobalFootprintStore = TRUE]
    /\ caller' = [caller EXCEPT ![p].pc = "InitRegisterEvict"]
    /\ UNCHANGED <<globalFootprintCache, footprintCaches, returned, served, last>>
    /\ UNCHANGED <<ManagerVars, ConcurrentVars, LruVars, DbVars, ResolverVars, EnvVars, GateVars, LruLockVars, TransitionVars>>

\* core.GlobalFootprintEvict = func(...) { globalFootprintCache.EvictOldEntries(...) }
InitRegisterEvict(p) ==
    /\ caller[p].pc = "InitRegisterEvict"
    /\ callbacks' = [callbacks EXCEPT !.GlobalFootprintEvict = TRUE]
    /\ caller' = [caller EXCEPT ![p].pc = AfterInit(p)]
    /\ UNCHANGED <<globalFootprintCache, footprintCaches, returned, served, last>>
    /\ UNCHANGED <<ManagerVars, ConcurrentVars, LruVars, DbVars, ResolverVars, EnvVars, GateVars, LruLockVars, TransitionVars>>

\* return globalFootprintCache; GetFootprintAPIs hands the instance to
\* NewFootprintAPI
GetCacheReturn(p) ==
    /\ caller[p].pc = "GetReturn"
    /\ returned' = returned \cup {globalFootprintCache}
    /\ served' = IF caller[p].op = "GetFootprintAPIs"
                 THEN served \cup {globalFootprintCache} ELSE served
    /\ caller' = [caller EXCEPT ![p].pc = "idle"]
    /\ last' = [op |-> caller[p].op, ret |-> globalFootprintCache]
    /\ UNCHANGED <<globalFootprintCache, footprintCaches, callbacks>>
    /\ UNCHANGED <<ManagerVars, ConcurrentVars, LruVars, DbVars, ResolverVars, EnvVars, GateVars, LruLockVars, TransitionVars>>

\* A call of the registered core.GlobalFootprintStore: the closure reads
\* globalFootprintCache when it is called
GlobalFootprintStore(txHash, expectedFootprint, actualFootprint, blockNumber, mismatch) ==
    /\ callbacks.GlobalFootprintStore
    /\ footprintCaches' = [footprintCaches EXCEPT ![globalFootprintCache] =
            FootprintCacheStore(@, txHash, expectedFootprint, actualFootprint,
                                blockNumber, mismatch)]
    /\ last' = [op |-> "GlobalFootprintStore", txHash |-> txHash,
                entry |-> Entry(expectedFootprint, actualFootprint, blockNumber, mismatch)]
    /\ UNCHANGED <<globalFootprintCache, callbacks, caller, returned, served>>
    /\ UNCHANGED <<ManagerVars, ConcurrentVars, LruVars, DbVars, ResolverVars, EnvVars, GateVars, LruLockVars, TransitionVars>>

\* A call of the registered core.GlobalFootprintEvict
GlobalFootprintEvict(currentBlockNumber) ==
    /\ callbacks.GlobalFootprintEvict
    /\ footprintCaches' = [footprintCaches EXCEPT ![globalFootprintCache] =
            FootprintCacheEvictOld(@, currentBlockNumber)]
    /\ last' = [op |-> "GlobalFootprintEvict", currentBlockNumber |-> currentBlockNumber]
    /\ UNCHANGED <<globalFootprintCache, callbacks, caller, returned, served>>
    /\ UNCHANGED <<ManagerVars, ConcurrentVars, LruVars, DbVars, ResolverVars, EnvVars, GateVars, LruLockVars, TransitionVars>>

\* FootprintAPI.GetFootprint on the service built over the instance c
GetFootprint(c, txHash) ==
    /\ c \in served
    /\ LET res == FootprintCacheGet(footprintCaches[c], txHash)
       IN  last' = [op |-> "GetFootprint", cache |-> c, txHash |-> txHash,
                    entry |-> res.entry, exists |-> res.exists]
    /\ UNCHANGED EthapiVars
    /\ UNCHANGED <<ManagerVars, ConcurrentVars, LruVars, DbVars, ResolverVars, EnvVars, GateVars, LruLockVars, TransitionVars>>

-----------------------------------------------------------------------------
(* The solanaMetadataCache under concurrent callers: Add and Get step by step *)

\* The goroutines that call the cache: two, for a writer against a reader,
\* two readers, and two writers
CacheCallers == {1, 2}

RWUnlocked == [writer |-> 0, readers |-> {}]
NotFound == [slot |-> 0, solanaHash |-> 0, ok |-> FALSE]
IdleCacheCaller ==
    [pc |-> "idle", blockHash |-> 0, slot |-> 0, solanaHash |-> 0, res |-> NotFound]

\* Mutant of CanLock: Lock does not wait for the readers.
CanLockBesideReaders(m) == m.writer = 0

\* c.mu.Lock() returns once no goroutine holds the lock, for writing or reading
CanLock(m) == m.writer = 0 /\ m.readers = {}

\* c.mu.RLock() returns once no goroutine holds the write lock
CanRLock(m) == m.writer = 0

\* Add with capacity <= 0: it returns before taking the lock
AddReturn(p, blockHash, slot, solanaHash) ==
    /\ cacheCaller[p].pc = "idle"
    /\ capacity <= 0
    /\ last' = [op |-> "Add", blockHash |-> blockHash, slot |-> slot,
                solanaHash |-> solanaHash, locked |-> FALSE]
    /\ UNCHANGED <<LruVars, LruLockVars>>
    /\ UNCHANGED <<ManagerVars, ConcurrentVars, DbVars, ResolverVars, EnvVars, GateVars, EthapiVars, TransitionVars>>

\* Add: c.mu.Lock()
AddLock(p, blockHash, slot, solanaHash) ==
    /\ cacheCaller[p].pc = "idle"
    /\ capacity > 0
    /\ CanLock(cmu)
    /\ cmu' = [cmu EXCEPT !.writer = p]
    /\ cacheCaller' = [cacheCaller EXCEPT ![p] =
                         [pc |-> "add", blockHash |-> blockHash, slot |-> slot,
                          solanaHash |-> solanaHash, res |-> NotFound]]
    /\ UNCHANGED <<last, LruVars, latest>>
    /\ UNCHANGED <<ManagerVars, ConcurrentVars, DbVars, ResolverVars, EnvVars, GateVars, EthapiVars, TransitionVars>>

\* Add: the entry of a cached hash is updated and moved to the front, and Add
\* returns; a new entry is pushed to the front and put in the map
AddInsert(p) ==
    /\ cacheCaller[p].pc = "add"
    /\ LET a == cacheCaller[p]
           e == solanaMetadataEntry(a.blockHash, a.slot, a.solanaHash)
       IN  /\ IF a.blockHash \in DOMAIN cacheMap
              THEN LET i == IndexOf(ll, a.blockHash)
                   IN  /\ ll' = MoveToFront([ll EXCEPT ![i] = e], i)
                       /\ cacheCaller' = [cacheCaller EXCEPT ![p].pc = "unlock"]
              ELSE /\ ll' = <<e>> \o ll
                   /\ cacheCaller' = [cacheCaller EXCEPT ![p].pc = "evict"]
           /\ cacheMap' = Put(cacheMap, a.blockHash, e)
           /\ latest' = Put(latest, a.blockHash, [slot |-> a.slot, solanaHash |-> a.solanaHash])
    /\ UNCHANGED <<last, capacity, accessed, added, cmu>>
    /\ UNCHANGED <<ManagerVars, ConcurrentVars, DbVars, ResolverVars, EnvVars, GateVars, EthapiVars, TransitionVars>>

\* Add: the loop that removes the back of the list while it is too long
AddEvict(p) ==
    /\ cacheCaller[p].pc = "evict"
    /\ LET c == EvictBack(Cache)
       IN  ll' = c.ll /\ cacheMap' = c.cache
    /\ cacheCaller' = [cacheCaller EXCEPT ![p].pc = "unlock"]
    /\ UNCHANGED <<last, capacity, accessed, added, cmu, latest>>
    /\ UNCHANGED <<ManagerVars, ConcurrentVars, DbVars, ResolverVars, EnvVars, GateVars, EthapiVars, TransitionVars>>

\* Add: the deferred c.mu.Unlock()
AddUnlock(p) ==
    /\ cacheCaller[p].pc = "unlock"
    /\ cmu' = [cmu EXCEPT !.writer = 0]
    /\ cacheCaller' = [cacheCaller EXCEPT ![p] = IdleCacheCaller]
    /\ UNCHANGED <<last, LruVars, latest>>
    /\ UNCHANGED <<ManagerVars, ConcurrentVars, DbVars, ResolverVars, EnvVars, GateVars, EthapiVars, TransitionVars>>

\* Get: c.mu.RLock()
GetRLock(p, blockHash) ==
    /\ cacheCaller[p].pc = "idle"
    /\ CanRLock(cmu)
    /\ cmu' = [cmu EXCEPT !.readers = @ \cup {p}]
    /\ cacheCaller' = [cacheCaller EXCEPT ![p] =
                         [IdleCacheCaller EXCEPT !.pc = "get", !.blockHash = blockHash]]
    /\ UNCHANGED <<last, LruVars, latest>>
    /\ UNCHANGED <<ManagerVars, ConcurrentVars, DbVars, ResolverVars, EnvVars, GateVars, EthapiVars, TransitionVars>>

\* Get: elem, ok := c.cache[blockHash]; without an element Get has its result
GetLookup(p) ==
    /\ cacheCaller[p].pc = "get"
    /\ cacheCaller' = [cacheCaller EXCEPT ![p].pc =
                         IF cacheCaller[p].blockHash \in DOMAIN cacheMap
                         THEN "slot" ELSE "got"]
    /\ UNCHANGED <<last, LruVars, cmu, latest>>
    /\ UNCHANGED <<ManagerVars, ConcurrentVars, DbVars, ResolverVars, EnvVars, GateVars, EthapiVars, TransitionVars>>

\* The entry that the element found by Get points to; once off the list it
\* stays as Get last read it
EntryOf(a) ==
    IF a.blockHash \in DOMAIN cacheMap
    THEN cacheMap[a.blockHash]
    ELSE solanaMetadataEntry(a.blockHash, a.res.slot, a.res.solanaHash)

\* Get: the read of entry.slot
GetSlot(p) ==
    /\ cacheCaller[p].pc = "slot"
    /\ cacheCaller' = [cacheCaller EXCEPT
                         ![p].pc = "hash",
                         ![p].res = [@ EXCEPT !.slot = EntryOf(cacheCaller[p]).slot]]
    /\ UNCHANGED <<last, LruVars, cmu, latest>>
    /\ UNCHANGED <<ManagerVars, ConcurrentVars, DbVars, ResolverVars, EnvVars, GateVars, EthapiVars, TransitionVars>>

\* Get: the read of entry.solanaHash
GetHash(p) ==
    /\ cacheCaller[p].pc = "hash"
    /\ cacheCaller' = [cacheCaller EXCEPT
                         ![p].pc = "got",
                         ![p].res = [@ EXCEPT !.solanaHash = EntryOf(cacheCaller[p]).solanaHash,
                                              !.ok = TRUE]]
    /\ UNCHANGED <<last, LruVars, cmu, latest>>
    /\ UNCHANGED <<ManagerVars, ConcurrentVars, DbVars, ResolverVars, EnvVars, GateVars, EthapiVars, TransitionVars>>

\* Get: the deferred c.mu.RUnlock(); Get returns res
GetRUnlock(p) ==
    /\ cacheCaller[p].pc = "got"
    /\ cmu' = [cmu EXCEPT !.readers = @ \ {p}]
    /\ cacheCaller' = [cacheCaller EXCEPT ![p] = IdleCacheCaller]
    /\ UNCHANGED <<last, LruVars, latest>>
    /\ UNCHANGED <<ManagerVars, ConcurrentVars, DbVars, ResolverVars, EnvVars, GateVars, EthapiVars, TransitionVars>>

-----------------------------------------------------------------------------
(* The state transition of a message (package core, StateTransition) *)

\* The largest nonce, balance and gas pool that a transition starts from
MaxNonce == 1
MaxBalance == 1
MaxGas == 1

From == "From"
Coinbase == "Coinbase"
Accounts == {From, Coinbase}
NoError == "nil"
ErrGasLimitReached == "gas limit reached"
ErrSystemTxNotSupported == "system tx not supported"

\* StateDB.AddBalance, SubBalance, SetNonce
AddBalance(s, addr, amount) == [s EXCEPT !.balance[addr] = @ + amount]
SubBalance(s, addr, amount) == [s EXCEPT !.balance[addr] = @ - amount]
SetNonce(s, addr, n) == [s EXCEPT !.nonce[addr] = n]

\* GasPool.SubGas
SubGas(gp, amount) ==
    IF gp < amount THEN [gp |-> gp, err |-> ErrGasLimitReached]
    ELSE [gp |-> gp - amount, err |-> NoError]

AddUint64(a, b) == (a + b) % (MaxUint64 + 1)

IntrinsicGas(msg) == [gas |-> 0, err |-> NoError]

\* A StateTransition as NewStateTransition builds it, with the error and
\* the result of the function that ran on it
NewStateTransition(s, gp) ==
    [state |-> s, gp |-> gp, gasRemaining |-> 0, initialGas |-> 0,
     err |-> NoError, result |-> <<>>]

Failing(t, err) == [t EXCEPT !.err = err]

buyGas(t, msg, ev, romeGasUsed) ==
    IF ev.coinbaseZero THEN t
    ELSE LET mgval == romeGasUsed * (IF msg.GasTipCap # <<>> THEN msg.GasTipCap[1]
                                                              ELSE msg.GasPrice)
             g == SubGas(t.gp, romeGasUsed)
         IN  IF t.state.balance[From] < mgval THEN Failing(t, "insufficient funds")
             ELSE IF g.err # NoError THEN Failing(t, g.err)
             ELSE [t EXCEPT !.gp = g.gp,
                            !.gasRemaining = AddUint64(@, MaxUint64 \div 2),
                            !.initialGas = MaxUint64 \div 2,
                            !.state = SubBalance(@, From, mgval)]

preCheck(t, msg, ev, romeGasUsed) ==
    IF msg.IsDepositTx
    THEN LET u == [t EXCEPT !.initialGas = msg.GasLimit,
                            !.gasRemaining = AddUint64(@, msg.GasLimit)]
             g == SubGas(u.gp, msg.GasLimit)
         IN  IF msg.IsSystemTx
             THEN IF ev.IsOptimismRegolith THEN Failing(u, ErrSystemTxNotSupported)
                  ELSE u
             ELSE [u EXCEPT !.gp = g.gp, !.err = g.err]
    ELSE LET stNonce == t.state.nonce[From]
         IN  IF ~msg.SkipAccountChecks /\ stNonce < msg.Nonce
                 THEN Failing(t, "nonce too high")
             ELSE IF ~msg.SkipAccountChecks /\ stNonce > msg.Nonce
                 THEN Failing(t, "nonce too low")
             ELSE IF ~msg.SkipAccountChecks /\ AddUint64(stNonce, 1) < stNonce
                 THEN Failing(t, "nonce has max value")
             ELSE IF ~msg.SkipAccountChecks /\ ev.senderHasCode
                 THEN Failing(t, "sender not an eoa")
             ELSE IF msg.BlobHashes = <<<<>>>>
                 THEN Failing(t, "blob transaction missing blob hashes")
             ELSE IF msg.BlobHashes # <<>>
                     /\ \E i \in 1..Len(msg.BlobHashes[1]) : msg.BlobHashes[1][i] # 1
                 THEN Failing(t, "blob hash version mismatch")
             ELSE IF ev.IsCancun /\ msg.BlobHashes # <<>> /\ ev.blobFeeCapLow
                 THEN Failing(t, "max fee per blob gas less than block blob gas fee")
             ELSE buyGas(t, msg, ev, romeGasUsed)

\* evm.Call and evm.Create on the state followed: the value leaves the
\* sender's balance unless the sender cannot pay it or the execution fails;
\* Create also counts the nonce of a sender that can pay up
evmRun(t, msg, ev) ==
    LET payable == t.state.balance[From] >= msg.Value
        s1 == IF msg.To = <<>> /\ payable
              THEN SetNonce(t.state, From, AddUint64(t.state.nonce[From], 1))
              ELSE t.state
        vmerr == IF ~payable THEN "insufficient balance for transfer"
                 ELSE IF ev.reverts THEN "execution reverted" ELSE NoError
    IN  [state |-> IF vmerr = NoError THEN SubBalance(s1, From, msg.Value) ELSE s1,
         vmerr |-> vmerr]

innerTransitionDb(t0, msg, ev, romeGasUsed) ==
    LET t == preCheck(t0, msg, ev, romeGasUsed)
        g == IntrinsicGas(msg)
    IN  IF t.err # NoError THEN t
        ELSE IF g.err # NoError THEN Failing(t, g.err)
        ELSE IF t.gasRemaining < g.gas THEN Failing(t, "intrinsic gas too low")
        ELSE LET s1 == IF msg.To = <<>> THEN t.state
                       ELSE SetNonce(t.state, From, AddUint64(t.state.nonce[From], 1))
                 run == evmRun([t EXCEPT !.state = s1], msg, ev)
                 effectiveTip == IF msg.GasTipCap # <<>> THEN msg.GasTipCap[1]
                                 ELSE msg.GasPrice
                 paid == IF msg.IsDepositTx \/ ev.coinbaseZero
                            \/ (ev.NoBaseFee /\ msg.GasFeeCap = 0 /\ msg.GasTipCap = <<0>>)
                         THEN run.state
                         ELSE AddBalance(run.state, Coinbase, romeGasUsed * effectiveTip)
             IN  [t EXCEPT !.gasRemaining = @ - g.gas,
                           !.state = paid,
                           !.result = <<[UsedGas |-> romeGasUsed, Err |-> <<run.vmerr>>,
                                         ReturnData |-> <<>>]>>]

\* Mutant of TransitionDbOf: a deposit that met ErrGasLimitReached is
\* included as a failed deposit too.
TransitionDbGasLimitToo(s, gp, msg, ev, romeGasUsed) ==
    LET snap == IF msg.Mint # <<>> THEN AddBalance(s, From, msg.Mint[1]) ELSE s
        t == innerTransitionDb(NewStateTransition(snap, gp), msg, ev, romeGasUsed)
    IN  IF t.err # NoError /\ msg.IsDepositTx
        THEN [state |-> SetNonce(snap, From, AddUint64(snap.nonce[From], 1)),
              gp |-> t.gp, snap |-> snap, reverted |-> TRUE, inner |-> t.err,
              err |-> NoError,
              result |-> <<[UsedGas |-> IF msg.IsSystemTx /\ ~ev.IsRegolith
                                        THEN 0 ELSE msg.GasLimit,
                            Err |-> <<"failed deposit", t.err>>, ReturnData |-> <<>>]>>]
        ELSE [state |-> t.state, gp |-> t.gp, snap |-> snap, reverted |-> FALSE,
              inner |-> t.err, err |-> t.err, result |-> t.result]

\* StateTransition.TransitionDb: the state and the gas pool it leaves, the
\* snapshot it took and whether it went back to it, the error of
\* innerTransitionDb, and what it returns
TransitionDbOf(s, gp, msg, ev, romeGasUsed) ==
    LET snap == IF msg.Mint # <<>> THEN AddBalance(s, From, msg.Mint[1]) ELSE s
        t == innerTransitionDb(NewStateTransition(snap, gp), msg, ev, romeGasUsed)
    IN  IF t.err # NoError /\ t.err # ErrGasLimitReached /\ msg.IsDepositTx
        THEN [state |-> SetNonce(snap, From, AddUint64(snap.nonce[From], 1)),
              gp |-> t.gp, snap |-> snap, reverted |-> TRUE, inner |-> t.err,
              err |-> NoError,
              result |-> <<[UsedGas |-> IF msg.IsSystemTx /\ ~ev.IsRegolith
                                        THEN 0 ELSE msg.GasLimit,
                            Err |-> <<"failed deposit", t.err>>, ReturnData |-> <<>>]>>]
        ELSE [state |-> t.state, gp |-> t.gp, snap |-> snap, reverted |-> FALSE,
              inner |-> t.err, err |-> t.err, result |-> t.result]

\* One call of ApplyMessage: TransitionDb on a new StateTransition
TransitionDb(msg, ev, romeGasUsed) ==
    /\ statedb # <<>>
    /\ \A a \in Accounts : statedb.balance[a] <= MaxBalance /\ statedb.nonce[a] <= MaxNonce
    /\ LET r == TransitionDbOf(statedb, gasPool, msg, ev, romeGasUsed)
       IN  /\ statedb' = r.state
           /\ gasPool' = r.gp
           /\ last' = [op |-> "TransitionDb", msg |-> msg, ev |-> ev, before |-> statedb,
                       snap |-> r.snap, reverted |-> r.reverted, inner |-> r.inner,
                       err |-> r.err,
                       result |-> r.result]
    /\ UNCHANGED <<ManagerVars, ConcurrentVars, LruVars, DbVars, ResolverVars, EnvVars, GateVars, EthapiVars, LruLockVars>>

-----------------------------------------------------------------------------
(* Specifications *)

InitWith(files) ==
    /\ constructed = FALSE
    /\ configuredMax = 0
    /\ cache = EmptyCache
    /\ knownMismatches = {}
    /\ mismatchFile \in files
    /\ last = [op |-> "start"]
    /\ stored = EmptyCache
    /\ recorded = -1
    /\ followed = (~mismatchFile.exists \/ mismatchFile.lines = <<>>)
    /\ calls = <<>>
    /\ allNil = TRUE

\* The parts of the state that a specification leaves alone
ConcurrentIdle == mu = 0 /\ goroutine = [p \in Procs |-> Idle]
LruIdle ==
    /\ capacity = 0 /\ ll = <<>> /\ cacheMap = <<>>
    /\ accessed = <<>> /\ added = [inOrder |-> TRUE, seq |-> <<>>]
DbIdle == db = <<>> /\ written = <<>>
ResolverIdle == header = <<>> /\ chain = <<>> /\ blockCtx = <<>> /\ asked = {}
EnvIdle == env = LedgerEnv
GateIdle ==
    /\ once = [k \in Singletons |-> OnceZero]
    /\ global = [k \in Singletons |-> <<>>]
    /\ getter = [p \in Getters |-> IdleGetter]
    /\ built = [k \in Singletons |-> [constructions |-> 0, loads |-> 0]]
    /\ tracker = {}
EthapiIdle ==
    /\ globalFootprintCache = 0
    /\ footprintCaches = <<>>
    /\ callbacks = [GlobalFootprintStore |-> FALSE, GlobalFootprintEvict |-> FALSE]
    /\ caller = [p \in Callers |-> IdleCaller]
    /\ returned = {}
    /\ served = {}
LruLockIdle ==
    /\ cmu = RWUnlocked
    /\ cacheCaller = [p \in CacheCallers |-> IdleCacheCaller]
    /\ latest = <<>>
TransitionIdle == statedb = <<>> /\ gasPool = 0
OutsideIdle == ConcurrentIdle /\ LruIdle /\ DbIdle /\ ResolverIdle /\ EnvIdle /\ GateIdle /\ EthapiIdle /\ LruLockIdle /\ TransitionIdle

\* The footprint cache of the Manager
InitCache == InitWith({NoFile, FileOf(<<Hex(26)>>)}) /\ OutsideIdle
NextCache ==
    \/ GetManager
    \/ \E txHash \in TxHashes, a \in StoreArgs :
          Store(txHash, a.ExpectedFootprint, a.ActualFootprint, a.BlockNumber, a.Mismatch)
    \/ \E txHash \in TxHashes : Get(txHash)
    \/ \E n \in EvictBlockNumbers : EvictOldEntries(n)
    \/ ClearCache
SpecCache == InitCache /\ [][NextCache]_vars

\* The known-mismatch ledger of the Manager
InitLedger == InitWith(InitialFiles) /\ OutsideIdle
NextLedger ==
    \/ GetManager
    \/ \E txHash \in Hashes : RecordMismatch(txHash)
SpecLedger == InitLedger /\ [][NextLedger]_vars

\* isValidFootprint on its own
InitValid == InitWith({NoFile}) /\ OutsideIdle
NextValid == \E footprint \in SampleFootprints : Validate(footprint)
SpecValid == InitValid /\ [][NextValid]_vars

\* The ledger of a Manager that starts with no ledger file or an empty one
InitFresh == InitWith({NoFile, FileOf(<<>>)}) /\ OutsideIdle
SpecFresh == InitFresh /\ [][NextLedger]_vars

\* Goroutines that call RecordMismatch on a Manager that GetManager has
\* built from a ledger without hashes; no file operation fails
InitConcurrent ==
    /\ constructed = TRUE
    /\ configuredMax = maxMismatchEntries
    /\ cache = EmptyCache
    /\ knownMismatches = {}
    /\ mismatchFile \in {NoFile, FileOf(<<>>), FileOf(<<CommentLine, BlankLine>>)}
    /\ last = [op |-> "GetManager"]
    /\ stored = EmptyCache
    /\ recorded = -1
    /\ followed = TRUE
    /\ calls = <<>>
    /\ allNil = TRUE
    /\ OutsideIdle
NextConcurrent ==
    \E p \in Procs :
        \/ \E txHash \in Hashes : RecordLock(p, txHash)
        \/ RecordCheck(p)
        \/ RecordRead(p)
        \/ RecordWrite(p)
SpecConcurrent == InitConcurrent /\ [][NextConcurrent]_vars

\* A solanaMetadataCache built by newSolanaMetadataCache
InitLru ==
    /\ InitWith({NoFile})
    /\ ConcurrentIdle /\ DbIdle /\ ResolverIdle /\ EnvIdle /\ GateIdle /\ EthapiIdle /\ LruLockIdle /\ TransitionIdle
    /\ capacity \in -1..MaxCapacity
    /\ ll = newSolanaMetadataCache(capacity).ll
    /\ cacheMap = newSolanaMetadataCache(capacity).cache
    /\ accessed = <<>>
    /\ added = [inOrder |-> TRUE, seq |-> <<>>]
NextLru ==
    \/ \E blockHash \in BlockHashes, v \in MetaValues :
          CacheAdd(blockHash, v.slot, v.solanaHash)
    \/ \E blockHash \in BlockHashes : CacheGet(blockHash)
SpecLru == InitLru /\ [][NextLru]_vars

\* The metadata records of a store that starts empty
DbHashes == {26}
InitDb ==
    /\ InitWith({NoFile})
    /\ ConcurrentIdle /\ LruIdle /\ ResolverIdle /\ EnvIdle /\ GateIdle /\ EthapiIdle /\ LruLockIdle /\ TransitionIdle
    /\ db = <<>>
    /\ written = <<>>
NextDb ==
    \/ \E h \in DbHashes, slot \in SampleSlots, putErr \in BOOLEAN :
          \/ WriteSolanaMetadataSlot(h, slot, putErr)
          \/ \E solanaHash \in SampleSolanaHashes :
                WriteSolanaMetadata(h, slot, solanaHash, putErr)
          \/ \E timestamp \in SampleTimestamps :
                WriteSolanaTxMetadata(h, slot, timestamp, putErr)
    \/ \E h \in DbHashes, value \in RawValues :
          \/ PutRaw(solanaMetadataKey(h), value)
          \/ PutRaw(solanaTxMetadataKey(h), value)
    \/ \E h \in DbHashes, getErr \in BOOLEAN :
          \/ ReadSolanaMetadataSlot(h, getErr)
          \/ ReadSolanaMetadata(h, getErr)
          \/ ReadSolanaTxMetadata(h, getErr)
SpecDb == InitDb /\ [][NextDb]_vars

\* The resolver of a block context. The header is the block of height n of a
\* chain, n in HeadNumbers, or a header of height 5 with a zero parent hash
\* or a number beyond uint64. The chain is given by the hops, counted
\* from the header, of the blocks that GetHeader does not return, that have
\* no metadata, and that record DupSlot.
HeadNumbers == {0, 1, 2, AncestorLimit, AncestorLimit + 1, AncestorLimit + 2}
MissingHops == {{}, {2}, {AncestorLimit}}
NoMetaHops == {{}, {0}, {1}}
DupHops == {{}, {0, 1}, {1, 2}, {2, AncestorLimit}, {AncestorLimit - 1, AncestorLimit},
            {AncestorLimit, AncestorLimit + 1}, {AncestorLimit + 1}}
HeightsOf(n, hops) == {n - k : k \in hops} \cap 0..n
ChainOf(n, missing, noMeta, dup) ==
    [top |-> n, missing |-> HeightsOf(n, missing), noMeta |-> HeightsOf(n, noMeta),
     dup |-> HeightsOf(n, dup)]
OddHeaders == {Header(6, ZeroHash, <<5>>), Header(6, 5, <<Uint64Range>>)}
\* The slots asked for, and the slot and hash arguments of NewEVMBlockContext
RequestSlots ==
    {DupSlot, UnrecordedSlot}
    \cup {SlotAt(header.Hash - 1 - k) : k \in {0, 1, AncestorLimit, AncestorLimit + 1}}
GivenNumbers == {<<>>, <<DupSlot>>, <<UnrecordedSlot>>, <<SlotAt(header.Hash - 1)>>}
GivenHashes == {<<>>, <<OverrideHash>>}
InitResolver ==
    /\ InitWith({NoFile})
    /\ ConcurrentIdle /\ LruIdle /\ DbIdle /\ EnvIdle /\ GateIdle /\ EthapiIdle /\ LruLockIdle /\ TransitionIdle
    /\ \/ \E n \in HeadNumbers, missing \in MissingHops, noMeta \in NoMetaHops, dup \in DupHops :
             /\ header = HeaderAt(n)
             /\ chain = ChainOf(n, missing, noMeta, dup)
       \/ \E dup \in {{}, {0}, {1}} :
             /\ header \in OddHeaders
             /\ chain = ChainOf(5, {}, {}, dup)
    /\ blockCtx = <<>> /\ asked = {}
NextResolver ==
    \/ \E solanaBlockNumber \in GivenNumbers, solanaBlockHash \in GivenHashes :
          NewEVMBlockContext(solanaBlockNumber, solanaBlockHash)
    \/ \E slot \in RequestSlots : GetSolanaHash(slot) /\ UNCHANGED asked
SpecResolver == InitResolver /\ [][NextResolver]_vars

\* The resolver by block number. The header is the block of height n of a
\* chain, n in HeadNumbers, or one of OddHeaders; the numbers asked for are
\* those around 0, around the number of the header, 257 below it, and the
\* largest uint64.
NumberNoMetaHops == NoMetaHops \cup {{2}, {AncestorLimit + 1}}
RequestNumbers ==
    LET n == header.Hash - 1
    IN  {0, 1, n - 1, n, n + 1, n - (AncestorLimit + 1), Uint64Range - n, Uint64Range - 1}
           \cap 0..(Uint64Range - 1)
InitByNumber ==
    /\ InitWith({NoFile})
    /\ ConcurrentIdle /\ LruIdle /\ DbIdle /\ EnvIdle /\ GateIdle /\ EthapiIdle /\ LruLockIdle /\ TransitionIdle
    /\ \/ \E n \in HeadNumbers, missing \in {{}, {2}}, noMeta \in NumberNoMetaHops :
             /\ header = HeaderAt(n)
             /\ chain = ChainOf(n, missing, noMeta, {})
       \/ /\ header \in OddHeaders
          /\ chain = ChainOf(5, {}, {}, {})
    /\ blockCtx = <<>> /\ asked = {}
NextByNumber ==
    \/ \E solanaBlockNumber \in {<<>>, <<SlotAt(header.Hash - 1)>>}, solanaBlockHash \in GivenHashes :
          NewEVMBlockContext(solanaBlockNumber, solanaBlockHash)
    \/ \E ethBlockNum \in RequestNumbers : GetSolanaHashByEthBlock(ethBlockNum) /\ UNCHANGED asked
SpecByNumber == InitByNumber /\ [][NextByNumber]_vars

\* The two closures of one context side by side: headers 2, 256 and 257
\* blocks above the genesis block, with or without blocks that record the
\* same slot, and contexts built with or without a slot and a hash
AgreeNumbers == {2, AncestorLimit, AncestorLimit + 1}
AgreeDupHops == {{}, {0, 1}, {1, AncestorLimit}, {0, AncestorLimit}}
AgreeBlockNums ==
    LET n == header.Hash - 1
    IN  {n, n - 1, n - 2, n - AncestorLimit, n - (AncestorLimit + 1)} \cap 0..n
AgreeSlots == {DupSlot, SlotAt(header.Hash - 1), SlotAt(header.Hash - 2)}
InitAgree ==
    /\ InitWith({NoFile})
    /\ ConcurrentIdle /\ LruIdle /\ DbIdle /\ EnvIdle /\ GateIdle /\ EthapiIdle /\ LruLockIdle /\ TransitionIdle
    /\ \E n \in AgreeNumbers, noMeta \in {{}, {1}}, dup \in AgreeDupHops :
          /\ header = HeaderAt(n)
          /\ chain = ChainOf(n, {}, noMeta, dup)
    /\ blockCtx = <<>> /\ asked = {}
NextAgree ==
    \/ \E solanaBlockNumber \in {<<>>, <<DupSlot>>, <<SlotAt(header.Hash - 1)>>},
            solanaBlockHash \in GivenHashes :
          NewEVMBlockContext(solanaBlockNumber, solanaBlockHash)
    \/ \E slot \in AgreeSlots : GetSolanaHash(slot) /\ UNCHANGED asked
    \/ \E ethBlockNum \in AgreeBlockNums :
          GetSolanaHashByEthBlock(ethBlockNum) /\ UNCHANGED asked
SpecAgree == InitAgree /\ [][NextAgree]_vars

\* The two closures of one context called in any order, with the calls
\* followed in asked, and the store written in between
ReadOnlyNumbers == {2, AncestorLimit + 1}
ReadOnlySlots == {DupSlot, SlotAt(header.Hash - 2)}
ReadOnlyBlockNums == {header.Hash - 2, header.Hash}
InitReadOnly ==
    /\ InitWith({NoFile})
    /\ ConcurrentIdle /\ LruIdle /\ DbIdle /\ EnvIdle /\ GateIdle /\ EthapiIdle /\ LruLockIdle /\ TransitionIdle
    /\ \E n \in ReadOnlyNumbers, noMeta \in {{}, {1}}, dup \in {{}, {0, 1}} :
          /\ header = HeaderAt(n)
          /\ chain = ChainOf(n, {}, noMeta, dup)
    /\ blockCtx = <<>> /\ asked = {}
NextReadOnly ==
    \/ \E solanaBlockNumber \in {<<>>, <<DupSlot>>}, solanaBlockHash \in GivenHashes :
          NewEVMBlockContext(solanaBlockNumber, solanaBlockHash)
    \/ \E slot \in ReadOnlySlots :
          /\ GetSolanaHash(slot)
          /\ asked' = asked \cup {Asked("GetSolanaHash", slot, last'.res)}
    \/ \E ethBlockNum \in ReadOnlyBlockNums :
          /\ GetSolanaHashByEthBlock(ethBlockNum)
          /\ asked' = asked \cup {Asked("GetSolanaHashByEthBlock", ethBlockNum, last'.res)}
    \/ \E n \in 0..(AncestorLimit + 1) : ChainWriteSolanaMetadata(n)
SpecReadOnly == InitReadOnly /\ [][NextReadOnly]_vars

\* The queries of the Manager, on caches of up to NumTxHashes entries and
\* ledgers of up to two hashes
QueryStoreArgs == {Entry(Fp11, Fp0x22, 100, TRUE), Entry(Fp11, Fp11, 100, FALSE)}
InitQueries ==
    InitWith({NoFile, FileOf(<<Hex(26)>>), FileOf(<<Hex(26), Hex(43)>>)}) /\ OutsideIdle
NextQueries ==
    \/ GetManager
    \/ \E txHash \in TxHashes, a \in QueryStoreArgs :
          Store(txHash, a.ExpectedFootprint, a.ActualFootprint, a.BlockNumber, a.Mismatch)
    \/ \E txHash \in TxHashes : Get(txHash)
    \/ \E txHash \in Hashes : IsKnownMismatch(txHash)
    \/ GetStats
SpecQueries == InitQueries /\ [][NextQueries]_vars

\* The configuration of the Manager from the environment. The values of the
\* maximum: unset or empty, zero, small numbers, with zeros or a sign in
\* front, the default, the largest uint64 and the number after it, and
\* strings that are not numbers.
MaxStrings ==
    {EmptyString, Decimal(0), Decimal(5), <<48, 48>> \o Decimal(7), <<43>> \o Decimal(5),
     <<45>> \o Decimal(3), Decimal(Uint64Range - 1), Decimal(Uint64Range),
     Decimal(1) \o <<97>>, <<32>> \o Decimal(5), TrueString}
PanicStrings == {EmptyString, TrueString, <<84, 82, 85, 69>>, Decimal(1)}
InitConfig ==
    /\ InitWith({NoFile})
    /\ ConcurrentIdle /\ LruIdle /\ DbIdle /\ ResolverIdle /\ GateIdle /\ EthapiIdle /\ LruLockIdle /\ TransitionIdle
    /\ env \in {[GETH_FOOTPRINT_PANIC |-> EmptyString, GETH_FOOTPRINT_MAX_MISMATCHES |-> str] :
                  str \in {EmptyString, Decimal(5), Decimal(Uint64Range)}}
NextConfig ==
    \/ \E value \in MaxStrings : Setenv("GETH_FOOTPRINT_MAX_MISMATCHES", value)
    \/ \E value \in PanicStrings : Setenv("GETH_FOOTPRINT_PANIC", value)
    \/ GetManager
    \/ ShouldPanic
    \/ TrackerShouldPanic
SpecConfig == InitConfig /\ [][NextConfig]_vars

\* The gates of the two singletons, with every interleaving of the calls
InitGate ==
    /\ InitWith({NoFile, FileOf(<<Hex(26)>>)})
    /\ ConcurrentIdle /\ LruIdle /\ DbIdle /\ ResolverIdle /\ EnvIdle /\ GateIdle /\ EthapiIdle /\ LruLockIdle /\ TransitionIdle
NextGate ==
    \E p \in Getters :
        \/ \E k \in Singletons, dataDir \in DataDirs : GetCall(p, k, dataDir)
        \/ OnceDoSlow(p)
        \/ OnceBodyConstruct(p)
        \/ OnceBodyLoad(p)
        \/ OnceDone(p)
        \/ GetReturn(p)
SpecGate == InitGate /\ [][NextGate]_vars

\* The registration of the ethapi footprint cache, with every interleaving
\* of the calls, and the use of the callbacks and of the services
EthapiStoreArgs == {Entry(Fp11, Fp0x22, 100, TRUE)}
InitEthapi == InitWith({NoFile}) /\ OutsideIdle
NextEthapi ==
    \/ \E p \in Callers :
          \/ \E op \in EthapiFunctions : EthapiCall(p, op)
          \/ GetCheck(p)
          \/ InitCheck(p)
          \/ InitNew(p)
          \/ InitRegisterStore(p)
          \/ InitRegisterEvict(p)
          \/ GetCacheReturn(p)
    \/ \E a \in EthapiStoreArgs :
          GlobalFootprintStore(1, a.ExpectedFootprint, a.ActualFootprint, a.BlockNumber, a.Mismatch)
    \/ \E c \in 1..Len(footprintCaches) : GetFootprint(c, 1)
SpecEthapi == InitEthapi /\ [][NextEthapi]_vars

\* The ethapi footprint cache as InitFootprintCache leaves it, used through
\* the two callbacks
EvictStoreBlocks == {0, 100, MaxUint64 - 5}
InitEvict ==
    /\ InitWith({NoFile})
    /\ ConcurrentIdle /\ LruIdle /\ DbIdle /\ ResolverIdle /\ EnvIdle /\ GateIdle /\ LruLockIdle /\ TransitionIdle
    /\ globalFootprintCache = 1
    /\ footprintCaches = <<NewFootprintCache>>
    /\ callbacks = [GlobalFootprintStore |-> TRUE, GlobalFootprintEvict |-> TRUE]
    /\ caller = [p \in Callers |-> IdleCaller]
    /\ returned = {}
    /\ served = {}
NextEvict ==
    \/ \E txHash \in Hashes, blockNumber \in EvictStoreBlocks :
          GlobalFootprintStore(txHash, Fp11, Fp0x22, blockNumber, TRUE)
    \/ \E currentBlockNumber \in EvictBlockNumbers \cup {0} :
          GlobalFootprintEvict(currentBlockNumber)
SpecEvict == InitEvict /\ [][NextEvict]_vars

\* A solanaMetadataCache built by newSolanaMetadataCache, with goroutines
\* calling Add and Get, each call a step at a time
InitLocked ==
    /\ InitWith({NoFile})
    /\ ConcurrentIdle /\ DbIdle /\ ResolverIdle /\ EnvIdle /\ GateIdle /\ EthapiIdle /\ TransitionIdle
    /\ LruLockIdle
    /\ capacity \in -1..MaxCapacity
    /\ ll = newSolanaMetadataCache(capacity).ll
    /\ cacheMap = newSolanaMetadataCache(capacity).cache
    /\ accessed = <<>>
    /\ added = [inOrder |-> TRUE, seq |-> <<>>]
NextLocked ==
    \E p \in CacheCallers :
        \/ \E blockHash \in BlockHashes, v \in MetaValues :
              \/ AddReturn(p, blockHash, v.slot, v.solanaHash)
              \/ AddLock(p, blockHash, v.slot, v.solanaHash)
        \/ AddInsert(p)
        \/ AddEvict(p)
        \/ AddUnlock(p)
        \/ \E blockHash \in BlockHashes : GetRLock(p, blockHash)
        \/ GetLookup(p)
        \/ GetSlot(p)
        \/ GetHash(p)
        \/ GetRUnlock(p)
SpecLocked == InitLocked /\ [][NextLocked]_vars

\* Messages applied one after the other to the state of a sender and the
\* coinbase: deposits, with and without mint, system deposits, calls and
\* contract creations
Message(deposit, system, mint, gasLimit, nonce, to, value) ==
    [IsDepositTx |-> deposit, IsSystemTx |-> system, Mint |-> mint, GasLimit |-> gasLimit,
     Nonce |-> nonce, To |-> to, Value |-> value, GasPrice |-> 1, GasFeeCap |-> 1,
     GasTipCap |-> <<1>>, BlobHashes |-> <<>>, SkipAccountChecks |-> FALSE]
DepositMessages ==
    {Message(TRUE, system, mint, gasLimit, 0, <<1>>, 0) :
        system \in BOOLEAN, mint \in {<<>>, <<1>>}, gasLimit \in {1, MaxGas + 1}}
PlainMessages ==
    {Message(FALSE, FALSE, <<>>, 1, nonce, to, value) :
        nonce \in {0, 1}, to \in {<<>>, <<1>>}, value \in {0, 1}}
BlobMessages ==
    {[Message(FALSE, FALSE, <<1>>, 1, 0, <<1>>, 0) EXCEPT !.BlobHashes = b] :
        b \in {<<<<>>>>, <<<<1>>>>, <<<<1, 2>>>>}}
UncheckedMessage ==
    [Message(FALSE, FALSE, <<>>, 1, 0, <<1>>, 1) EXCEPT !.SkipAccountChecks = TRUE]
Environment(optimismRegolith, regolith, unusual) ==
    [IsOptimismRegolith |-> optimismRegolith, IsRegolith |-> regolith,
     coinbaseZero |-> (unusual = "coinbaseZero"), senderHasCode |-> (unusual = "senderHasCode"),
     IsCancun |-> TRUE, blobFeeCapLow |-> (unusual = "blobFeeCapLow"),
     NoBaseFee |-> FALSE, reverts |-> (unusual = "reverts")]
\* The calls made: the message, the outcomes of the calls into the chain
\* configuration, the block context and the EVM, and romeGasUsed
TransitionCalls ==
    (DepositMessages \X {Environment(o, r, "") : o, r \in BOOLEAN} \X {1})
    \cup (PlainMessages
             \X {Environment(TRUE, TRUE, u) : u \in {"", "coinbaseZero", "reverts"}}
             \X {0, 1})
    \cup (BlobMessages \X {Environment(TRUE, TRUE, u) : u \in {"", "blobFeeCapLow"}} \X {1})
    \cup ({UncheckedMessage, Message(FALSE, FALSE, <<>>, 1, 0, <<1>>, 0)}
             \X {Environment(TRUE, TRUE, "senderHasCode")} \X {1})
InitTransition ==
    /\ InitWith({NoFile})
    /\ ConcurrentIdle /\ LruIdle /\ DbIdle /\ ResolverIdle /\ EnvIdle /\ GateIdle
    /\ EthapiIdle /\ LruLockIdle
    /\ statedb \in {[balance |-> [a \in Accounts |-> IF a = From THEN b ELSE 0],
                     nonce |-> [a \in Accounts |-> 0]] : b \in {0, MaxBalance}}
    /\ gasPool \in {0, MaxGas}
NextTransition ==
    \E call \in TransitionCalls : TransitionDb(call[1], call[2], call[3])
SpecTransition == InitTransition /\ [][NextTransition]_vars

\* The whole Manager
Init == InitLedger
Next ==
    \/ NextCache
    \/ NextLedger
    \/ \E txHash \in Hashes : IsKnownMismatch(txHash)
Spec == Init /\ [][Next]_vars

-----------------------------------------------------------------------------
(* The hashes listed in the ledger file *)

FileHashes == SelectHashLines(mismatchFile.lines)

\* The known-mismatch set of a fresh Manager that loads the file as it is now,
\* no file operation failing (a restart)
RestartSet ==
    loadKnownMismatches(mismatchFile, Len(mismatchFile.lines), maxMismatchEntries).knownMismatches

\* The lines of the file that are neither blank nor comments
HashLinesOf(lines) == {lines[i] : i \in {j \in 1..Len(lines) : lines[j] # <<>> /\ lines[j][1] # 35}}

\* Both footprints are non-empty and differ
Differ(e) == e.ExpectedFootprint # <<>> /\ e.ActualFootprint # <<>>
             /\ e.ExpectedFootprint # e.ActualFootprint

-----------------------------------------------------------------------------
(* Claims *)

\* C1: a Get of a hash for which a Store with two valid footprints was made,
\* and whose entry was not evicted or cleared since, returns found with
\* exactly the arguments of the most recent such Store.
C1_GetReturnsLastStore ==
    (last.op = "Get" /\ last.txHash \in DOMAIN stored)
        => (last.ok /\ last.entry = <<stored[last.txHash]>>)

\* C1 witness: a Get found the entry stored with a prefixed and an unprefixed
\* footprint.
C1_Witness ==
    /\ last.op = "Get" /\ last.ok
    /\ last.entry = <<Entry(Fp11, Fp0x22, 100, TRUE)>>

\* C2: a Store with an invalid expected or actual footprint changes nothing:
\* the cache, the known-mismatch set and the ledger file stay as they were.
C2_InvalidStoreDropped ==
    [][(last'.op = "Store" /\ ~(last'.expectedValid /\ last'.actualValid))
          => UNCHANGED <<cache, knownMismatches, mismatchFile>>]_vars

\* C2 witness: a Store with a valid expected and an invalid actual footprint
\* was made for a hash that keeps its entry.
C2_Witness ==
    /\ last.op = "Store" /\ last.expectedValid /\ ~last.actualValid
    /\ last.txHash \in DOMAIN cache

\* C3: isValidFootprint accepts a string iff it is empty or, with at most one
\* leading 0x or 0X removed, has exactly 64 characters, all hex digits.
C3_ValidIffRule ==
    last.op = "isValidFootprint" => (last.ret <=> ValidFootprintRule(last.footprint))

\* C3 witness: a string of 0X and 64 hex digits was accepted.
C3_Witness ==
    /\ last.op = "isValidFootprint" /\ last.ret
    /\ last.footprint = Prefix0X \o Rep(70, 64)

\* C4 as claimed: every cached entry's flag is true iff both footprints are
\* non-empty and differ.
C4_FlagIffDiffer ==
    \A h \in DOMAIN cache : cache[h].Mismatch <=> Differ(cache[h])

\* C4 amended: every cached entry's flag is the mismatch argument of the Store
\* that wrote it, so it is true iff both footprints are non-empty and differ
\* exactly when that argument was.
C4_FlagIsArgument ==
    \A h \in DOMAIN cache :
        /\ h \in DOMAIN stored
        /\ cache[h].Mismatch = stored[h].Mismatch
        /\ (cache[h].Mismatch <=> Differ(cache[h]))
              <=> (stored[h].Mismatch <=> Differ(stored[h]))

\* C4 witness: an entry with equal footprints carries the flag true it was
\* stored with.
C4_Witness ==
    \E h \in DOMAIN cache : cache[h] = Entry(Fp0x22, Fp0x22, 0, TRUE)

\* C5: EvictOldEntries(N) removes the entries with N - blockNumber > 12, keeps
\* the others (N - blockNumber = 12 included) unchanged, and adds none.
C5_EvictByAge ==
    [][last'.op = "EvictOldEntries" =>
          /\ DOMAIN cache' \subseteq DOMAIN cache
          /\ \A h \in DOMAIN cache :
                IF last'.currentBlockNumber - cache[h].BlockNumber > maxCacheAge
                THEN h \notin DOMAIN cache'
                ELSE h \in DOMAIN cache' /\ cache'[h] = cache[h]]_vars

\* C5 witness: EvictOldEntries(112) removed one entry and kept the one stored
\* at block 100.
C5_Witness ==
    /\ last.op = "EvictOldEntries" /\ last.currentBlockNumber = 112 /\ last.evicted = 1
    /\ \E h \in DOMAIN cache : cache[h].BlockNumber = 100

\* C6: a RecordMismatch of the hash of the previous RecordMismatch call
\* returns nil and leaves the known-mismatch set and the file as they were.
C6_RecordIdempotent ==
    [][(last'.op = "RecordMismatch" /\ last'.txHash = recorded)
          => /\ knownMismatches' = knownMismatches
             /\ mismatchFile' = mismatchFile
             /\ ~last'.err]_vars

\* C6 witness: a hash was recorded a second time, the first call having left
\* it out of the file.
C6_Witness ==
    /\ last.op = "RecordMismatch" /\ last.again /\ ~last.err
    /\ last.txHash \notin Range(FileHashes)

\* C7: the known-mismatch set and the hash lines of the file each number at
\* most maxMismatchEntries, after loading and after every RecordMismatch.
C7_LedgerBound ==
    constructed =>
        /\ Cardinality(knownMismatches) <= maxMismatchEntries
        /\ Len(FileHashes) <= maxMismatchEntries

\* C8: from an empty ledger, after RecordMismatch calls on maxMismatchEntries
\* + k distinct hashes with no file operation failing, the set is the last
\* maxMismatchEntries hashes, the file lists them in order, and none of the
\* first k is known.
C8_OldestFirstEviction ==
    (constructed /\ followed /\ Len(calls) >= maxMismatchEntries)
        => LET kept == LastN(calls, maxMismatchEntries)
           IN  /\ knownMismatches = Range(kept)
               /\ mismatchFile = FileOf([i \in 1..Len(kept) |-> Hex(kept[i])])
               /\ \A i \in 1..(Len(calls) - maxMismatchEntries) :
                     ~IsKnownMismatchIn(knownMismatches, calls[i])

\* C8 witness: two hashes more than maxMismatchEntries were recorded.
C8_Witness ==
    /\ followed /\ Distinct(calls)
    /\ Len(calls) = maxMismatchEntries + 2
    /\ last.op = "RecordMismatch" /\ last.truncated

\* C9: when a RecordMismatch that overflowed maxMismatchEntries has returned,
\* the known-mismatch set and the file hold the same hashes.
C9_TruncationAtomic ==
    (last.op = "RecordMismatch" /\ last.truncated)
        => knownMismatches = Range(FileHashes)

\* C10: RecordMismatch returns an error only if a file operation of the call
\* failed, and the hash is known when it returns, with or without an error.
C10_KnownAfterRecord ==
    last.op = "RecordMismatch" =>
        /\ IsKnownMismatchIn(knownMismatches, last.txHash)
        /\ last.err => last.fault

\* C10 witness: a RecordMismatch returned an error and its hash is known.
C10_Witness ==
    /\ last.op = "RecordMismatch" /\ last.err
    /\ last.txHash \in knownMismatches

\* C11: when the ledger was loaded and every RecordMismatch call so far has
\* returned nil, a fresh Manager that loads the ledger file has the
\* known-mismatch set of the running Manager, and that set holds only hashes
\* of lines that are neither blank nor start with '#'.
C11_DurableRoundTrip ==
    (constructed /\ allNil)
        => /\ RestartSet = knownMismatches
           /\ RestartSet \subseteq {HexToHash(l) : l \in HashLinesOf(mismatchFile.lines)}

\* The goroutines whose RecordMismatch call has returned, and those inside
\* the locked part of the call
Returned == {p \in Procs : goroutine[p].pc = "done"}
Inside == {p \in Procs : goroutine[p].pc \in {"locked", "read", "write"}}
Count(q, x) == Cardinality({i \in 1..Len(q) : q[i] = x})

\* C12: at most one RecordMismatch call is between its Lock and its return;
\* and once all calls have returned, if they were on distinct hashes and at
\* most maxMismatchEntries, the file lists each hash exactly once and the set
\* holds each.
C12_WritesSerialized ==
    /\ Cardinality(Inside) <= 1
    /\ (/\ Inside = {}
        /\ Cardinality(Returned) <= maxMismatchEntries
        /\ \A p, q \in Returned : p # q => goroutine[p].txHash # goroutine[q].txHash)
          => \A p \in Returned :
                /\ Count(FileHashes, goroutine[p].txHash) = 1
                /\ goroutine[p].txHash \in knownMismatches

\* C12 witness: maxMismatchEntries goroutines have returned from calls on
\* distinct hashes, no other has called, and the file lists their hashes.
C12_Witness ==
    /\ Inside = {}
    /\ Cardinality(Returned) = maxMismatchEntries
    /\ Cardinality({goroutine[p].txHash : p \in Returned}) = maxMismatchEntries
    /\ Range(FileHashes) = {goroutine[p].txHash : p \in Returned}

\* C13: in a cache of capacity C > 0, after Add of C + 1 distinct block
\* hashes and nothing else, a Get of the first hash added finds nothing and a
\* Get of any other of them finds the slot and the hash it was added with.
C13_FirstInsertedEvicted ==
    (/\ last.op = "CacheGet"
     /\ capacity > 0 /\ added.inOrder /\ Len(added.seq) = capacity + 1)
        => /\ last.blockHash = added.seq[1].blockHash => ~last.ok
           /\ \A i \in 2..Len(added.seq) :
                 last.blockHash = added.seq[i].blockHash
                    => /\ last.ok
                       /\ last.slot = added.seq[i].slot
                       /\ last.solanaHash = added.seq[i].solanaHash

\* C13 witness: after MaxCapacity + 1 Adds on distinct hashes into a cache of
\* capacity MaxCapacity, a Get of the first hash added found nothing.
C13_Witness ==
    /\ last.op = "CacheGet" /\ ~last.ok
    /\ capacity = MaxCapacity /\ added.inOrder /\ Len(added.seq) = capacity + 1
    /\ last.blockHash = added.seq[1].blockHash

\* C14: in a cache of capacity C >= 2, an Add that evicts an entry evicts the
\* one whose last access, Add or successful Get, is the oldest.
C14_EvictsLeastRecentlyAccessed ==
    [][(last'.op = "CacheAdd" /\ capacity >= 2 /\ last'.evicted # {})
          => last'.evicted = {accessed[Len(accessed)]}]_vars

\* C15: an Add on a block hash already cached puts its entry, with the new
\* slot and hash, at the front of the list, keeps the other entries and their
\* order, evicts nothing, and a Get of the hash then returns the new values.
C15_AddUpdatesInPlace ==
    [][(last'.op = "CacheAdd" /\ last'.existed)
          => LET e == solanaMetadataEntry(last'.blockHash, last'.slot, last'.solanaHash)
                 IsOther(x) == x.blockHash # last'.blockHash
             IN  /\ ll'[1] = e
                 /\ SelectSeq(ll', IsOther) = SelectSeq(ll, IsOther)
                 /\ Len(ll') = Len(ll)
                 /\ DOMAIN cacheMap' = DOMAIN cacheMap
                 /\ last'.evicted = {}
                 /\ solanaMetadataCacheGet(Cache', last'.blockHash)
                       = [slot |-> last'.slot, solanaHash |-> last'.solanaHash, ok |-> TRUE]]_vars

\* C15 witness: an Add gave new values to the entry at the back of a full
\* list, which is now at the front.
C15_Witness ==
    /\ last.op = "CacheAdd" /\ last.existed
    /\ capacity = MaxCapacity /\ Len(ll) = capacity /\ last.position = capacity
    /\ ll[1] = solanaMetadataEntry(last.blockHash, 9, 19)

\* The write that a read by op returns, and whether the last write of the
\* read key was such a write and reached the store
WriterOf(op) ==
    IF op = "ReadSolanaMetadataSlot" THEN "slot"
    ELSE IF op = "ReadSolanaMetadata" THEN "slotHash" ELSE "tx"
IsRead == last.op \in {"ReadSolanaMetadataSlot", "ReadSolanaMetadata", "ReadSolanaTxMetadata"}
ReadsOwnWrite ==
    /\ IsRead /\ ~last.getErr
    /\ last.key \in DOMAIN written
    /\ written[last.key].fn = WriterOf(last.op)
    /\ written[last.key].stored

\* C16: a read, in each of the three variants, of a key whose most recent
\* write was made by the Write of the same variant returns found with the
\* slot of that write, and its hash or its timestamp, negative or not; no
\* store operation failing.
C16_WriteReadRoundTrip ==
    ReadsOwnWrite =>
        /\ last.res.ok
        /\ last.res.slot = written[last.key].slot
        /\ last.op = "ReadSolanaMetadata"
              => last.res.solanaHash = written[last.key].solanaHash
        /\ last.op = "ReadSolanaTxMetadata"
              => last.res.timestamp = written[last.key].timestamp

\* C16 witness: ReadSolanaTxMetadata returned the largest slot and the
\* smallest timestamp, as written.
C16_Witness ==
    /\ ReadsOwnWrite /\ last.op = "ReadSolanaTxMetadata"
    /\ last.res = [slot |-> MaxSlot, timestamp |-> MinInt64, ok |-> TRUE]

\* The length of the record that the Write of the variant of op writes
RecordLength(op) ==
    IF op = "ReadSolanaMetadataSlot" THEN Uint64Bytes
    ELSE IF op = "ReadSolanaMetadata" THEN Uint64Bytes + HashLength
    ELSE 2 * Uint64Bytes

\* C17 as claimed: a read returns not-found when the key is absent, the store
\* returns an error, or the length of the stored value is not the length of
\* the variant's record.
C17_NotFoundOnLengthMismatch ==
    IsRead => ((last.getErr \/ last.absent \/ last.length # RecordLength(last.op))
                 => ~last.res.ok)

\* C17 amended: a read returns not-found exactly when the key is absent, the
\* store returns an error, or the value is shorter than a slot (block
\* metadata, both variants) or not of the record's length (transaction
\* metadata); a block value too short to hold the hash is found with the
\* zero hash.
C17_NotFoundIffTooShort ==
    IsRead =>
        /\ last.res.ok <=>
              /\ ~last.getErr /\ ~last.absent
              /\ IF last.op = "ReadSolanaTxMetadata"
                 THEN last.length = RecordLength(last.op)
                 ELSE last.length >= Uint64Bytes
        /\ (last.op = "ReadSolanaMetadata" /\ last.res.ok
                /\ last.length < RecordLength(last.op))
              => last.res.solanaHash = ZeroHash
        /\ ~last.res.ok => last.res.slot = 0

\* C17 witness: the slot and hash variant found a value that holds a slot
\* only, and returned the zero hash.
C17_Witness ==
    /\ last.op = "ReadSolanaMetadata" /\ last.length = Uint64Bytes
    /\ last.res.ok /\ last.res.solanaHash = ZeroHash /\ last.res.slot = MaxSlot

\* The ancestors of the header of the context, by hops: the hash and number
\* of the k-th, the metadata recorded for it, and whether GetHeader returns
\* every header on the way to it
AncestorHash(k) == IF k = 0 THEN header.Hash ELSE header.ParentHash - (k - 1)
RecordedAt(k) == GetSolanaMetadata(chain, AncestorHash(k))
Retrievable(k) ==
    \/ k = 0
    \/ /\ header.Number # <<>>
       /\ \A j \in 1..k : GetHeader(chain, AncestorHash(j), header.Number[1] - j) # <<>>
\* The hops of the blocks that record the slot asked for
MatchHops ==
    {k \in 0..(AncestorLimit + 2) : RecordedAt(k).ok /\ RecordedAt(k).slot = last.slot}
\* The context was built with both a slot and a hash, and the slot is asked for
OverrideMatches ==
    /\ blockCtx.given.number # <<>> /\ blockCtx.given.hash # <<>>
    /\ blockCtx.given.number[1] = last.slot

\* C18: a context built with both a slot and a hash answers a request for
\* that slot with that hash, found, without a GetSolanaMetadata or GetHeader
\* call.
C18_OverrideFirst ==
    (last.op = "GetSolanaHash" /\ OverrideMatches)
        => /\ last.res.ok
           /\ last.res.hash = blockCtx.given.hash[1]
           /\ last.res.getHeaderCalls = 0 /\ last.res.metadataCalls = 0

\* C18 witness: the override was returned although the store records the slot
\* asked for, with another hash, for the header.
C18_Witness ==
    /\ last.op = "GetSolanaHash" /\ OverrideMatches
    /\ last.res.hash = OverrideHash
    /\ RecordedAt(0).ok /\ RecordedAt(0).slot = last.slot

\* C19: when no override matches, and the nearest block that records the slot
\* asked for, counted from the header, is at most 256 hops away with every
\* header up to it returned by GetHeader, the hash recorded for that block is
\* returned, found.
C19_NearestAncestor ==
    (last.op = "GetSolanaHash" /\ ~OverrideMatches)
        => \A k \in MatchHops :
              (/\ k <= AncestorLimit
               /\ \A j \in MatchHops : j >= k
               /\ Retrievable(k))
                 => last.res.ok /\ last.res.hash = RecordedAt(k).hash

\* C19 witness: the slot was found 256 hops from the header, in the nearer of
\* two blocks that record it.
C19_Witness ==
    /\ last.op = "GetSolanaHash" /\ ~OverrideMatches
    /\ last.res.ok /\ last.res.hops = AncestorLimit
    /\ MatchHops = {AncestorLimit, AncestorLimit + 1}

\* The hop at which the walk meets block number 0 or a zero parent hash
StopHop ==
    IF header.ParentHash = ZeroHash THEN 0
    ELSE IF header.Number = <<>> \/ ~IsUint64(header.Number[1]) THEN AncestorLimit
    ELSE header.Number[1]

\* C20: a call makes at most 256 GetHeader calls and inspects no ancestor
\* farther than 256 hops; and when no override matches and every block that
\* records the slot asked for is farther than 256 hops or beyond the hop where
\* the walk meets block number 0 or a zero parent hash, it returns not-found.
C20_WalkBounded ==
    last.op = "GetSolanaHash" =>
        /\ last.res.getHeaderCalls <= AncestorLimit
        /\ last.res.hops <= AncestorLimit
        /\ (~OverrideMatches /\ \A k \in MatchHops : k > AncestorLimit \/ k > StopHop)
              => ~last.res.ok

\* C20 witness: 256 GetHeader calls were made and nothing found, the slot
\* being recorded 257 hops from the header.
C20_Witness ==
    /\ last.op = "GetSolanaHash" /\ ~last.res.ok
    /\ last.res.getHeaderCalls = AncestorLimit
    /\ MatchHops = {AncestorLimit + 1}

\* The number of the header of the context, and the hops from it to the block
\* of the number asked for
HeaderNumber == header.Number[1]
HopsToNumber == HeaderNumber - last.ethBlockNum

\* C21: GetSolanaHashByEthBlock answers a number above that of the header with
\* not-found, for every uint64 number, and makes no GetHeader and no
\* GetSolanaMetadata call for it.
C21_RejectsAboveHeader ==
    (last.op = "GetSolanaHashByEthBlock" /\ last.ethBlockNum > HeaderNumber)
        => /\ ~last.res.ok /\ last.res.hash = ZeroHash
           /\ last.res.getHeaderCalls = 0 /\ last.res.metadataCalls = 0

\* C21 witness: the largest uint64 was asked of a header of number 258, whose
\* own metadata is recorded, and was not found.
C21_Witness ==
    /\ last.op = "GetSolanaHashByEthBlock" /\ last.ethBlockNum = Uint64Range - 1
    /\ HeaderNumber = AncestorLimit + 2 /\ RecordedAt(0).ok
    /\ ~last.res.ok

\* C22: for a number up to that of the header, with every header from the
\* header down to that number returned by GetHeader, the call is found exactly
\* when the store has metadata for the block of that number on the path, and
\* then returns the hash recorded for it; and no call returns the hash
\* recorded for a block of another number.
C22_ExactAncestor ==
    last.op = "GetSolanaHashByEthBlock" =>
        /\ (/\ IsUint64(HeaderNumber) /\ last.ethBlockNum <= HeaderNumber
            /\ Retrievable(HopsToNumber))
              => /\ last.res.ok = RecordedAt(HopsToNumber).ok
                 /\ last.res.hash = RecordedAt(HopsToNumber).hash
        /\ last.res.ok => last.res.hash = MetaHashAt(last.ethBlockNum)

\* C22 witness: the genesis block was asked for from a header of number 258,
\* and its hash returned after 258 GetHeader calls.
C22_Witness ==
    /\ last.op = "GetSolanaHashByEthBlock" /\ last.ethBlockNum = 0
    /\ HeaderNumber = AncestorLimit + 2
    /\ last.res.ok /\ last.res.hash = MetaHashAt(0)
    /\ last.res.getHeaderCalls = AncestorLimit + 2

\* A step is a call of one of the two closures
ClosureCall == last'.op \in {"GetSolanaHash", "GetSolanaHashByEthBlock"}

\* C23: a call of either closure leaves the store behind the chain, the
\* headers, the header of the context, the captured pair and the key-value
\* store as they were; and, among the calls of one context with no write of the
\* store between them, those of the same closure with the same argument
\* returned the same result.
C23_ClosuresReadOnly ==
    /\ [][ClosureCall => UNCHANGED <<header, chain, blockCtx, db>>]_vars
    /\ [](\A a, b \in asked : (a.op = b.op /\ a.arg = b.arg) => a.res = b.res)

\* C23 witness: each closure was called again with an argument it had been
\* called with, after a call of the other, and both found a hash.
C23_Witness ==
    /\ \E a \in asked : a.op = "GetSolanaHash" /\ a.again /\ a.res.ok
    /\ \E a \in asked : a.op = "GetSolanaHashByEthBlock" /\ a.again /\ a.res.ok

\* C24: each singleton is constructed at most once and loaded at most once;
\* every call that has returned, returned the one singleton, constructed
\* once and loaded once, whatever dataDir it was called with; so no call
\* returned nil or a singleton not yet loaded.
C24_SingletonGate ==
    /\ \A k \in Singletons : built[k].constructions <= 1 /\ built[k].loads <= 1
    /\ \A p \in Getters :
          getter[p].ret # <<>> =>
              LET k == getter[p].singleton
              IN  /\ getter[p].ret[1] # <<>>
                  /\ getter[p].ret[1] = global[k]
                  /\ global[k][1].id = 1 /\ global[k][1].loaded
                  /\ built[k] = [constructions |-> 1, loads |-> 1]

\* C24 witness: two goroutines returned the Manager, loaded from the ledger
\* file, the second one called with another dataDir than the one the Manager
\* was built with.
C24_Witness ==
    /\ \A p \in {1, 2} : getter[p].ret # <<>> /\ getter[p].singleton = "globalManager"
    /\ getter[1].dataDir = 1 /\ getter[2].dataDir = 2
    /\ global["globalManager"][1].dataDir = 1
    /\ knownMismatches = {26}

\* C25: ShouldPanic returns true exactly when GETH_FOOTPRINT_PANIC is "true"
\* as the call is made, and it changes neither the Manager nor the environment.
C25_ShouldPanicReadsToggle ==
    /\ [](last.op = "ShouldPanic" => (last.ret <=> env.GETH_FOOTPRINT_PANIC = TrueString))
    /\ [][last'.op = "ShouldPanic" => UNCHANGED <<ManagerVars, env>>]_vars

\* C25 witness: ShouldPanic returned false, the toggle was set, and the next
\* ShouldPanic call returned true.
C25_Witness ==
    /\ last.op = "ShouldPanic" /\ last.ret /\ last.before = <<FALSE>>

\* The value of a string of digits, by the places of its digits
RECURSIVE Pow10(_)
Pow10(k) == IF k = 0 THEN 1 ELSE 10 * Pow10(k - 1)
RECURSIVE PlaceSum(_, _)
PlaceSum(str, i) ==
    IF i > Len(str) THEN 0
    ELSE (str[i] - 48) * Pow10(Len(str) - i) + PlaceSum(str, i + 1)
IsDigits(str) == str # <<>> /\ \A i \in 1..Len(str) : str[i] \in 48..57
EnvMax == env.GETH_FOOTPRINT_MAX_MISMATCHES
\* The step that constructs the Manager
Constructs == ~constructed /\ constructed'

\* C26: the Manager is constructed with the value of
\* GETH_FOOTPRINT_MAX_MISMATCHES when that is a positive integer (a string of
\* decimal digits whose value is at least 1 and fits the uint64 field), with
\* 10000 for every other string (unset or empty, zero, negative or with
\* another character that is not a digit, beyond uint64), and the value is
\* not changed afterwards, whatever the variable is set to.
C26_DigitsInRangeOrDefault ==
    [][/\ Constructs =>
             configuredMax' = IF IsDigits(EnvMax) /\ PlaceSum(EnvMax, 1) \in 1..(Uint64Range - 1)
                              THEN PlaceSum(EnvMax, 1)
                              ELSE DefaultMaxMismatchEntries
       /\ constructed => configuredMax' = configuredMax]_vars

\* C26 witness: the Manager was constructed with 5 entries, and the variable
\* has since been set to a number beyond uint64.
C26_Witness ==
    /\ constructed /\ configuredMax = 5
    /\ EnvMax = Decimal(Uint64Range)

\* C27: ClearCache leaves the cache empty and the known mismatches, the
\* ledger file and the configuration of the Manager as they were.
C27_ClearCacheOnlyCache ==
    [][last'.op = "ClearCache"
          => /\ cache' = EmptyCache
             /\ UNCHANGED <<knownMismatches, mismatchFile, configuredMax, constructed>>]_vars

\* C27 witness: ClearCache removed two entries while a hash was known and
\* listed in the ledger file.
C27_Witness ==
    /\ last.op = "ClearCache" /\ last.removed = 2 /\ cache = EmptyCache
    /\ knownMismatches = {26} /\ FileHashes = <<26>>

\* C28: Get, IsKnownMismatch and GetStats leave the cache, the known
\* mismatches and the ledger file as they were; and GetStats reports the
\* number of cached entries, the number of those whose Mismatch flag is set
\* and the number of known mismatches of that one state.
C28_QueriesChangeNothing ==
    [][last'.op \in {"Get", "IsKnownMismatch", "GetStats"}
          => /\ UNCHANGED <<cache, knownMismatches, mismatchFile>>
             /\ last'.op = "GetStats" =>
                   /\ last'.stats.cache_size = Cardinality(DOMAIN cache)
                   /\ last'.stats.cache_mismatch_count
                         = Cardinality(DOMAIN cache) - Cardinality({h \in DOMAIN cache : ~cache[h].Mismatch})
                   /\ last'.stats.known_mismatches_count = Cardinality(knownMismatches)]_vars

\* C28 witness: GetStats reported two cached entries, one of them a mismatch,
\* and two known mismatches.
C28_Witness ==
    /\ last.op = "GetStats"
    /\ last.stats.cache_size = 2 /\ last.stats.cache_mismatch_count = 1
    /\ last.stats.known_mismatches_count = 2
    /\ Cardinality(DOMAIN cache) = 2 /\ knownMismatches = {26, 43}

\* The hops the walk of GetSolanaHash can make from the header: none from a
\* header with a zero parent hash or a number beyond uint64, and as many as
\* the number of the header otherwise, where block number 0 is met
WalkStop ==
    IF header.ParentHash = ZeroHash \/ ~IsUint64(HeaderNumber) THEN 0 ELSE HeaderNumber
\* The hops, among those, at which GetHeader returns no header
NilHops ==
    {j \in 1..Min(AncestorLimit, WalkStop) :
        GetHeader(chain, AncestorHash(j), HeaderNumber - j) = <<>>}
\* The farthest ancestor the walk inspects
Reach ==
    IF NilHops = {} THEN Min(AncestorLimit, WalkStop)
    ELSE (CHOOSE j \in NilHops : \A k \in NilHops : j <= k) - 1
MatchInReach == {k \in MatchHops : k <= Reach}

\* C29: when no override matches, the walk passes the ancestors that have no
\* metadata or record another slot, and ends at the first of: a block that
\* records the slot, a header that GetHeader does not return, block number 0 or
\* a zero parent hash, 256 hops. So the slot is found exactly when a block up
\* to that end records it, and then in the nearest one; otherwise the call
\* is not-found, with one GetHeader call per hop and one more for the header
\* that was not returned, whatever is recorded beyond it.
C29_EarlyExits ==
    (last.op = "GetSolanaHash" /\ ~OverrideMatches)
        => LET nil == NilHops
               reach == Reach
               near == MatchInReach
           IN  /\ last.res.ok <=> near # {}
               /\ last.res.ok =>
                     /\ \A k \in near : last.res.hops <= k
                     /\ last.res.hops \in near
                     /\ last.res.hash = RecordedAt(last.res.hops).hash
               /\ ~last.res.ok =>
                     /\ last.res.hops = reach
                     /\ last.res.getHeaderCalls = reach + (IF nil = {} THEN 0 ELSE 1)

\* C29 witness: the header two hops away is not returned, and the slot,
\* recorded 255 and 256 hops away, was not found after two GetHeader calls;
\* the parent, one hop away, has no metadata.
C29_Witness ==
    /\ last.op = "GetSolanaHash" /\ ~OverrideMatches
    /\ ~last.res.ok /\ last.res.getHeaderCalls = 2
    /\ NilHops = {2} /\ MatchHops = {AncestorLimit - 1, AncestorLimit}
    /\ ~RecordedAt(1).ok

\* The hashes of old from the d-th on are the first hashes of new
KeptFrom(old, d, new) ==
    /\ Len(new) >= Len(old) - d
    /\ \A i \in 1..(Len(old) - d) : new[i] = old[d + i]

\* C30: after a RecordMismatch call, whatever its outcome, the ledger file
\* lists the hashes it listed before, in their order, but for the oldest
\* ones dropped because the hashes and the new one exceed maxMismatchEntries.
C30_AppendTruncateOnly ==
    [][last'.op = "RecordMismatch"
          => LET old == FileHashes
                 over == Len(old) + 1 - maxMismatchEntries
             IN  \E d \in 0..(IF over > 0 THEN over ELSE 0) : KeptFrom(old, d, FileHashes')]_vars

\* C31: a RecordMismatch that returned an error leaves its hash known; a later
\* RecordMismatch of a hash that is known returns nil and leaves the file and
\* the set as they were; a known hash that the file does not list stays out of
\* the file over every call, and leaves the set only in a call that truncates.
C31_RetryReturnsNil ==
    [][LET before == Range(FileHashes)
           after == Range(SelectHashLines(mismatchFile'.lines))
       IN  /\ (last'.op = "RecordMismatch" /\ last'.txHash \in knownMismatches)
               => (/\ ~last'.err
                   /\ mismatchFile' = mismatchFile
                   /\ knownMismatches' = knownMismatches)
           /\ (last'.op = "RecordMismatch" /\ last'.err)
               => (/\ last'.txHash \in knownMismatches'
                   /\ (last'.txHash \notin before => last'.txHash \notin after))
           /\ \A h \in knownMismatches \ before :
                  /\ h \notin after
                  /\ (h \notin knownMismatches'
                        => (last'.op = "RecordMismatch" /\ last'.truncated))]_vars

\* C31 witness: the call before returned an error for the same hash; this one
\* returned nil, the hash is known and the file does not list it.
C31_Witness ==
    /\ last.op = "RecordMismatch" /\ last.retry /\ ~last.err
    /\ IsKnownMismatchIn(knownMismatches, last.txHash)
    /\ last.txHash \notin Range(FileHashes)

\* C32: when the ledger was loaded with no file operation failing and every
\* RecordMismatch call so far has returned nil, the known-mismatch set is the
\* set of the hashes that the ledger file lists.
C32_SetIsLedger ==
    (constructed /\ allNil) => knownMismatches = Range(FileHashes)

\* C33: the load of GetManager, from a ledger file that lists more than
\* maxMismatchEntries hashes, leaves the last maxMismatchEntries of them as the
\* set and as the lines of the file, in file order; from a file that lists at
\* most maxMismatchEntries hashes it leaves all of them as the set and the
\* file as it was.
C33_LoadTruncation ==
    [][(~constructed /\ constructed')
          => LET all == FileHashes
                 kept == LastN(all, maxMismatchEntries)
             IN  IF Len(all) > maxMismatchEntries
                 THEN /\ knownMismatches' = Range(kept)
                      /\ mismatchFile' = FileOf([i \in 1..Len(kept) |-> Hex(kept[i])])
                 ELSE /\ knownMismatches' = Range(all)
                      /\ mismatchFile' = mismatchFile]_vars

\* C35: FootprintMismatchTracker.ShouldPanic returns what Manager.ShouldPanic
\* returns in the same environment, whatever GETH_FOOTPRINT_PANIC is set to.
C35_ShouldPanicAgree ==
    last.op = "TrackerShouldPanic" => last.ret = ShouldPanicOf(env)

\* C34: a call of FootprintCache.EvictOldEntries, through
\* core.GlobalFootprintEvict, leaves the entries that Manager.EvictOldEntries
\* leaves of the same content for the same currentBlockNumber, and removes no
\* entry whose BlockNumber is at or above currentBlockNumber.
C34_EvictionsAgree ==
    [][last'.op = "GlobalFootprintEvict"
          => LET before == footprintCaches[globalFootprintCache].entries
                 after == footprintCaches'[globalFootprintCache].entries
             IN  /\ after = EvictOld(before, last'.currentBlockNumber)
                 /\ \A h \in DOMAIN before \ DOMAIN after :
                        before[h].BlockNumber < last'.currentBlockNumber]_vars

\* C36: at most one FootprintCache is constructed, GetGlobalFootprintCache
\* and GetFootprintAPIs hand out that one, and an entry just stored through
\* core.GlobalFootprintStore is what every service built reads.
C36_OneFootprintCache ==
    /\ Len(footprintCaches) <= 1
    /\ returned \subseteq {1}
    /\ served \subseteq {1}
    /\ last.op = "GlobalFootprintStore"
          => \A c \in served :
                FootprintCacheGet(footprintCaches[c], last.txHash)
                    = [entry |-> <<last.entry>>, exists |-> TRUE]

\* C37: a GetSolanaHashByEthBlock call for a number up to that of the header
\* returns after at most (number of the header - number asked) GetHeader
\* calls; when it finds the hash it has made exactly that many, beyond 256
\* too; and when GetHeader does not return one of the headers on the way, it
\* returns not-found.
C37_ByNumberTerminates ==
    (/\ last.op = "GetSolanaHashByEthBlock"
     /\ IsUint64(HeaderNumber) /\ last.ethBlockNum <= HeaderNumber)
        => /\ last.res.getHeaderCalls <= HopsToNumber
           /\ last.res.ok => last.res.getHeaderCalls = HopsToNumber
           /\ ~Retrievable(HopsToNumber) => (~last.res.ok /\ last.res.hash = ZeroHash)

\* C37 witness: a block 257 hops below the header was asked for and found
\* after 257 GetHeader calls.
C37_Witness ==
    /\ last.op = "GetSolanaHashByEthBlock" /\ last.ethBlockNum <= HeaderNumber
    /\ HopsToNumber = AncestorLimit + 1
    /\ last.res.ok /\ last.res.getHeaderCalls = AncestorLimit + 1

\* The block that GetSolanaHashByEthBlock has just found, when it is at most
\* 256 hops from the header: the slot recorded for it, what GetSolanaHash
\* returns for that slot on the same context, whether the context was built
\* with a slot and a hash for that slot, and the nearest block recording it
FoundByNumber ==
    /\ last.op = "GetSolanaHashByEthBlock" /\ last.res.ok
    /\ last.ethBlockNum <= HeaderNumber /\ HopsToNumber <= AncestorLimit
FoundSlot == RecordedAt(HopsToNumber).slot
BySlot == getSolanaHash(blockCtx, header, chain, FoundSlot)
GivenForFoundSlot ==
    /\ blockCtx.given.number = <<FoundSlot>> /\ blockCtx.given.hash # <<>>
NearestHop ==
    CHOOSE k \in 0..HopsToNumber :
        /\ RecordedAt(k).ok /\ RecordedAt(k).slot = FoundSlot
        /\ \A j \in 0..(k - 1) : ~(RecordedAt(j).ok /\ RecordedAt(j).slot = FoundSlot)

\* C38 as stated: GetSolanaHash, asked for the slot of the block that
\* GetSolanaHashByEthBlock found at most 256 hops from the header, returns
\* the same hash, found.
C38_ResolversAgree ==
    FoundByNumber => (BySlot.ok /\ BySlot.hash = last.res.hash)

\* C38 amended: GetSolanaHash finds that slot; it returns the hash given to
\* NewEVMBlockContext when the context was built with a slot and a hash for
\* that slot, and otherwise the hash of the block nearest to the header that
\* records the slot, which is the hash GetSolanaHashByEthBlock returned when
\* no nearer block records the slot.
C38_NearestOrGiven ==
    FoundByNumber =>
        LET bySlot == BySlot
        IN  /\ bySlot.ok
            /\ bySlot.hash = IF GivenForFoundSlot THEN blockCtx.given.hash[1]
                             ELSE RecordedAt(NearestHop).hash
            /\ (~GivenForFoundSlot /\ NearestHop = HopsToNumber)
                  => bySlot.hash = last.res.hash

\* C38 witness: the block 256 hops from the header was found by its number,
\* no nearer block records its slot and no pair was given for it.
C38_Witness ==
    /\ FoundByNumber /\ HopsToNumber = AncestorLimit
    /\ ~GivenForFoundSlot /\ NearestHop = HopsToNumber
    /\ BySlot.hash = last.res.hash

\* C39: on a solanaMetadataCache of capacity C > 0 with goroutines calling
\* Add and Get in any interleaving, whenever no Add is inside its locked
\* section the list holds at most C entries and the list and the map hold
\* the same block hashes, each once in the list, with the same entry; a Get
\* that found an entry returns the slot and hash of the most recent Add for
\* its block hash; with capacity <= 0 nothing is ever stored.
C39_LruStructure ==
    /\ (capacity > 0 /\ cmu.writer = 0) =>
          /\ Len(ll) <= capacity
          /\ {ll[i].blockHash : i \in 1..Len(ll)} = DOMAIN cacheMap
          /\ \A i, j \in 1..Len(ll) : ll[i].blockHash = ll[j].blockHash => i = j
          /\ \A i \in 1..Len(ll) : cacheMap[ll[i].blockHash] = ll[i]
    /\ \A p \in CacheCallers :
          LET a == cacheCaller[p]
          IN  (a.pc = "got" /\ a.res.ok) =>
                 /\ a.blockHash \in DOMAIN latest
                 /\ latest[a.blockHash] = [slot |-> a.res.slot, solanaHash |-> a.res.solanaHash]
    /\ capacity <= 0 => (ll = <<>> /\ cacheMap = <<>>)

\* A full cache of capacity 2 whose oldest entry was evicted, read by a Get
\* of a hash that was added twice with different values while another
\* goroutine waits with a Get that found nothing
C39_Witness ==
    /\ capacity = 2 /\ Len(ll) = 2 /\ cmu.writer = 0
    /\ DOMAIN latest = BlockHashes
    /\ \E p, q \in CacheCallers :
          /\ cacheCaller[p].pc = "got" /\ cacheCaller[p].res.ok
          /\ cacheCaller[p].res.slot = 9
          /\ cacheCaller[q].pc = "got" /\ ~cacheCaller[q].res.ok
          /\ cacheCaller[q].blockHash \in DOMAIN latest

\* C40: a deposit message whose inner transition fails with an error other
\* than ErrGasLimitReached leaves the state of the snapshot taken after the
\* mint was credited with the sender's nonce one higher, returns a nil
\* error, and its result carries the failure with UsedGas the gas limit of
\* the message, or 0 for a system transaction before Regolith; the error of
\* a message that is no deposit, and ErrGasLimitReached, is returned as it
\* is, with the state as innerTransitionDb left it and the nonce unchanged.
C40_FailedDeposit ==
    last.op = "TransitionDb" =>
       LET msg == last.msg
           minted == IF msg.Mint # <<>>
                     THEN [last.before EXCEPT !.balance[From] = @ + msg.Mint[1]]
                     ELSE last.before
           failed == msg.IsDepositTx /\ last.inner \notin {NoError, ErrGasLimitReached}
       IN  /\ last.snap = minted
           /\ failed =>
                 /\ last.reverted
                 /\ statedb = [minted EXCEPT !.nonce[From] = @ + 1]
                 /\ last.err = NoError
                 /\ last.result = <<[UsedGas |-> IF msg.IsSystemTx /\ ~last.ev.IsRegolith
                                                 THEN 0 ELSE msg.GasLimit,
                                     Err |-> <<"failed deposit", last.inner>>,
                                     ReturnData |-> <<>>]>>
           /\ (last.inner # NoError /\ ~failed) =>
                 /\ last.err = last.inner
                 /\ last.result = <<>>
                 /\ ~last.reverted
                 /\ statedb.nonce = last.before.nonce
                 /\ msg.IsDepositTx => statedb = minted

\* A system deposit with a mint met ErrSystemTxNotSupported after Regolith:
\* the mint is credited, the nonce counted up, all its gas reported as used
C40_Witness ==
    /\ last.op = "TransitionDb"
    /\ last.msg.IsDepositTx /\ last.msg.IsSystemTx /\ last.msg.Mint = <<1>>
    /\ last.inner = ErrSystemTxNotSupported
    /\ last.before.nonce[From] = 1
    /\ statedb.nonce[From] = 2
    /\ statedb.balance[From] = last.before.balance[From] + 1
    /\ last.err = NoError
    /\ last.result[1].UsedGas = last.msg.GasLimit

====
